---- MODULE Spec2Model ----
(***************************************************************************)
(* Model of troly.py: the reminder scheduler (scheduler_loop), the user    *)
(* store (ensure_user / update_user over assistant_users.json) and the     *)
(* update handler (handle_updates_forever, apply_preset).                  *)
(*                                                                         *)
(* Python strings are sequences of one-character strings, so that          *)
(* parse_hhmm, strftime and str/int conversions are computed, not assumed. *)
(* Time is the unix clock in seconds; the local (UTC+7) date and time of   *)
(* day are derived from it.                                                *)
(***************************************************************************)
EXTENDS Integers, Sequences, FiniteSets, TLC

\* ------------------------------------------------------------------------
\* Program constants
\* ------------------------------------------------------------------------
SCHED_TICK == 20
VN_UTC_OFFSET == 25200
SecPerMin == 60
SecPerDay == 24 * 3600

\* ------------------------------------------------------------------------
\* Bounds of the model
\* ------------------------------------------------------------------------
MaxTicks == 2
MaxUpdates == 2
MaxFail == 1
MaxIOFail == 1
LatePause == 40
\* How long a failing tg_send takes, and how late time.sleep may return when
\* the host is suspended
SendDelay == 20
LongPause == 1200

\* ------------------------------------------------------------------------
\* Strings and numbers
\* ------------------------------------------------------------------------
Digits == <<"0", "1", "2", "3", "4", "5", "6", "7", "8", "9">>

\* None, as a value distinct from every Python string of the model
None == <<"None">>

DigitChar(d) == Digits[d + 1]

IsDigit(c) == \E i \in 1..10 : Digits[i] = c

DigitVal(c) == (CHOOSE i \in 1..10 : Digits[i] = c) - 1

\* str.strip(): leading and trailing blanks removed
RECURSIVE LStrip(_)
LStrip(s) == IF s # <<>> /\ Head(s) = " " THEN LStrip(Tail(s)) ELSE s

RECURSIVE RStrip(_)
RStrip(s) == IF s # <<>> /\ s[Len(s)] = " " THEN RStrip(SubSeq(s, 1, Len(s) - 1)) ELSE s

Strip(s) == RStrip(LStrip(s))

\* str.split(":"): the parts between the separators
RECURSIVE SplitColon(_, _, _)
SplitColon(s, cur, acc) ==
    IF s = <<>> THEN Append(acc, cur)
    ELSE IF Head(s) = ":" THEN SplitColon(Tail(s), <<>>, Append(acc, cur))
    ELSE SplitColon(Tail(s), Append(cur, Head(s)), acc)

RECURSIVE DigitsValue(_, _)
DigitsValue(s, acc) ==
    IF s = <<>> THEN acc ELSE DigitsValue(Tail(s), acc * 10 + DigitVal(Head(s)))

AllDigits(s) == s # <<>> /\ \A i \in 1..Len(s) : IsDigit(s[i])

\* int(str): blanks around the number and one sign are accepted; anything else
\* raises ValueError (IntOk is FALSE)
IntBody(s) ==
    LET t == Strip(s)
    IN  IF t # <<>> /\ Head(t) \in {"+", "-"} THEN Tail(t) ELSE t

IntOk(s) == AllDigits(IntBody(s))

IntOf(s) ==
    LET t == Strip(s)
        v == DigitsValue(IntBody(s), 0)
    IN  IF t # <<>> /\ Head(t) = "-" THEN 0 - v ELSE v

\* str(int)
RECURSIVE NatToStr(_)
NatToStr(n) ==
    IF n < 10 THEN <<DigitChar(n)>>
    ELSE Append(NatToStr(n \div 10), DigitChar(n % 10))

IntToStr(n) == IF n < 0 THEN <<"-">> \o NatToStr(0 - n) ELSE NatToStr(n)

\* ------------------------------------------------------------------------
\* Clock and time helpers
\* ------------------------------------------------------------------------
\* now_vn(): the local wall clock of unix time t, as seconds since the epoch
\* of the local calendar
LocalSecs(t) == t + VN_UTC_OFFSET

DayOf(t) == LocalSecs(t) \div SecPerDay

SecOfDay(t) == LocalSecs(t) % SecPerDay

HourOf(t) == SecOfDay(t) \div 3600

MinuteOf(t) == (SecOfDay(t) % 3600) \div SecPerMin

\* datetime.weekday(): Monday is 0; day 0 of the epoch was a Thursday
WeekdayOf(t) == (DayOf(t) + 3) % 7

\* "%H:%M" of an hour and a minute
HM(h, m) == <<DigitChar(h \div 10), DigitChar(h % 10), ":", DigitChar(m \div 10), DigitChar(m % 10)>>

\* now.strftime("%H:%M")
HHMM(t) == HM(HourOf(t), MinuteOf(t))

\* Variant: the minute key without the date
key_at_NoDate(t) == <<0, HHMM(t)>>

\* key_at(now): "%Y-%m-%d %H:%M"; the date is kept as the local day number
key_at(t) == <<DayOf(t), HHMM(t)>>

\* parse_hhmm(hhmm): <<h, m>>, or None
parse_hhmm(hhmm) ==
    IF hhmm = None THEN None
    ELSE LET parts == SplitColon(Strip(hhmm), <<>>, <<>>)
         IN  IF Len(parts) # 2 THEN None
             ELSE IF ~(IntOk(parts[1]) /\ IntOk(parts[2])) THEN None
             ELSE LET h == IntOf(parts[1])
                      m == IntOf(parts[2])
                  IN  IF 0 <= h /\ h <= 23 /\ 0 <= m /\ m <= 59 THEN <<h, m>> ELSE None

\* Variant: only an end before the start makes the window run over midnight
in_window_StrictWrap(t, start_hm, end_hm) ==
    LET s == parse_hhmm(start_hm)
        e == parse_hhmm(end_hm)
    IN  IF s = None \/ e = None THEN FALSE
        ELSE LET start == s[1] * 3600 + s[2] * SecPerMin
                 end == e[1] * 3600 + e[2] * SecPerMin
                 n == SecOfDay(t)
             IN  IF end < start THEN n >= start \/ n <= end
                 ELSE start <= n /\ n <= end

\* in_window(now, start_hm, end_hm); start and end are today's date at the
\* given clock time, so the comparison is one of seconds of the day
in_window(t, start_hm, end_hm) ==
    LET s == parse_hhmm(start_hm)
        e == parse_hhmm(end_hm)
    IN  IF s = None \/ e = None THEN FALSE
        ELSE LET start == s[1] * 3600 + s[2] * SecPerMin
                 end == e[1] * 3600 + e[2] * SecPerMin
                 n == SecOfDay(t)
             IN  IF end <= start THEN n >= start \/ n <= end
                 ELSE start <= n /\ n <= end

\* ------------------------------------------------------------------------
\* User records
\* ------------------------------------------------------------------------
PointKeys == {"wake", "sleep", "work_start", "work_end", "exercise", "breakfast", "lunch", "dinner"}

IntervalCats == {"break", "water", "eye", "posture"}

\* The order in which scheduler_loop evaluates the events of one user
EventOrder == <<"wake", "sleep", "work_start", "work_end", "break", "water", "eye", "posture",
                "exercise", "breakfast", "lunch", "dinner">>

\* The record field holding the configured time of a point event
TimeField == [wake |-> "wake_time", sleep |-> "sleep_time", work_start |-> "work_start",
              work_end |-> "work_end", exercise |-> "exercise_time",
              breakfast |-> "breakfast_time", lunch |-> "lunch_time", dinner |-> "dinner_time"]

\* The fields of an interval category, and the defaults scheduler_loop falls
\* back to when a field is missing (or, for every_min, falsy)
EnabledField == [break |-> "break_enabled", water |-> "water_enabled",
                 eye |-> "eye_enabled", posture |-> "posture_enabled"]

EveryField == [break |-> "break_every_min", water |-> "water_every_min",
               eye |-> "eye_every_min", posture |-> "posture_every_min"]

WinStartField == [break |-> "break_window_start", water |-> "water_window_start",
                  eye |-> "eye_window_start", posture |-> "posture_window_start"]

WinEndField == [break |-> "break_window_end", water |-> "water_window_end",
                eye |-> "eye_window_end", posture |-> "posture_window_end"]

TsField == [break |-> "last_break_ts", water |-> "last_water_ts",
            eye |-> "last_eye_ts", posture |-> "last_posture_ts"]

EveryDefault == [break |-> 120, water |-> 60, eye |-> 30, posture |-> 45]

WinStartDefault == [break |-> HM(9, 0), water |-> HM(8, 0), eye |-> HM(8, 0), posture |-> HM(8, 0)]

WinEndDefault == [break |-> HM(18, 0), water |-> HM(22, 0), eye |-> HM(22, 0), posture |-> HM(22, 0)]

\* The record ensure_user stores for an unknown chat id. created_at (the
\* creation time, shown in the overview only) is left out.
DefaultUser ==
    [enabled |-> TRUE, timezone |-> "VN",
     wake_time |-> HM(7, 0), sleep_time |-> HM(23, 0),
     work_enabled |-> TRUE, work_start |-> HM(9, 0), work_end |-> HM(18, 0),
     work_days |-> {0, 1, 2, 3, 4},
     break_enabled |-> TRUE, break_every_min |-> 120,
     break_window_start |-> HM(9, 0), break_window_end |-> HM(18, 0),
     water_enabled |-> TRUE, water_every_min |-> 60,
     water_window_start |-> HM(8, 0), water_window_end |-> HM(22, 0),
     eye_enabled |-> TRUE, eye_every_min |-> 30,
     eye_window_start |-> HM(8, 0), eye_window_end |-> HM(22, 0),
     posture_enabled |-> TRUE, posture_every_min |-> 45,
     posture_window_start |-> HM(8, 0), posture_window_end |-> HM(22, 0),
     exercise_enabled |-> TRUE, exercise_time |-> HM(18, 30),
     meal_enabled |-> TRUE, breakfast_time |-> HM(7, 30), lunch_time |-> HM(12, 0),
     dinner_time |-> HM(18, 30),
     last_fire |-> <<>>,
     last_water_ts |-> 0, last_break_ts |-> 0, last_eye_ts |-> 0, last_posture_ts |-> 0]

\* dict.get on a user record, by the type of the field
HasField(u, f) == f \in DOMAIN u

\* u.get(f) used as a condition
GetFlag(u, f) == HasField(u, f) /\ u[f] = TRUE

\* u.get(f) of a string field: None when the field is missing
GetStr(u, f) == IF HasField(u, f) THEN u[f] ELSE None

\* u.get(f, d)
GetStrOr(u, f, d) == IF HasField(u, f) THEN u[f] ELSE d

\* int(u.get(f) or d): a missing or zero value gives the default
GetIntOr(u, f, d) == IF HasField(u, f) /\ u[f] # 0 THEN u[f] ELSE d

\* u.get("work_days") or []
GetDays(u) == IF HasField(u, "work_days") THEN u["work_days"] ELSE {}

\* u.get("last_fire", {})
GetLastFire(u) == IF HasField(u, "last_fire") THEN u["last_fire"] ELSE <<>>

\* dict.update: the fields of patch replace or extend those of u
Merge(u, patch) ==
    [f \in DOMAIN u \cup DOMAIN patch |-> IF f \in DOMAIN patch THEN patch[f] ELSE u[f]]

\* ------------------------------------------------------------------------
\* The store: the users object of assistant_users.json, in file order
\* ------------------------------------------------------------------------
EmptyStore == [keys |-> <<>>, rec |-> <<>>]

HasUser(d, k) == k \in DOMAIN d.rec

\* data["users"][k] = r: a new key goes last
PutUser(d, k, r) ==
    [keys |-> IF HasUser(d, k) THEN d.keys ELSE Append(d.keys, k),
     rec |-> [x \in DOMAIN d.rec \cup {k} |-> IF x = k THEN r ELSE d.rec[x]]]

\* ensure_user(chat_id): the store afterwards; a missing or empty record is
\* replaced by the defaults
\* Variant: ensure_user stores the defaults whether or not there is a record
ensure_user_store_Reset(d, chat_id) == PutUser(d, IntToStr(chat_id), DefaultUser)

ensure_user_store(d, chat_id) ==
    LET k == IntToStr(chat_id)
    IN  IF HasUser(d, k) /\ DOMAIN d.rec[k] # {} THEN d ELSE PutUser(d, k, DefaultUser)

\* ensure_user(chat_id): the record returned
ensure_user(d, chat_id) == ensure_user_store(d, chat_id).rec[IntToStr(chat_id)]

\* Variant: update_user leaves eye_every_min out of the patch
update_user_Partial(d, chat_id, patch) ==
    LET k == IntToStr(chat_id)
        old == IF HasUser(d, k) THEN d.rec[k] ELSE <<>>
        part == [f \in DOMAIN patch \ {"eye_every_min"} |-> patch[f]]
    IN  PutUser(d, k, Merge(old, part))

\* update_user(chat_id, patch): the store afterwards
update_user(d, chat_id, patch) ==
    LET k == IntToStr(chat_id)
        old == IF HasUser(d, k) THEN d.rec[k] ELSE <<>>
    IN  PutUser(d, k, Merge(old, patch))

\* ------------------------------------------------------------------------
\* Presets (apply_preset)
\* ------------------------------------------------------------------------
PresetFields(wake, sleep, ws, we, brk, water, eye, posture, ex, bf, lunch, dinner) ==
    [wake_time |-> wake, sleep_time |-> sleep,
     work_enabled |-> TRUE, work_start |-> ws, work_end |-> we,
     break_enabled |-> TRUE, break_every_min |-> brk,
     water_enabled |-> TRUE, water_every_min |-> water,
     eye_enabled |-> TRUE, eye_every_min |-> eye,
     posture_enabled |-> TRUE, posture_every_min |-> posture,
     exercise_enabled |-> TRUE, exercise_time |-> ex,
     meal_enabled |-> TRUE, breakfast_time |-> bf, lunch_time |-> lunch, dinner_time |-> dinner]

presets ==
    [STANDARD |-> PresetFields(HM(7, 0), HM(23, 0), HM(9, 0), HM(18, 0), 120, 60, 30, 45,
                               HM(18, 30), HM(7, 30), HM(12, 0), HM(18, 30)),
     OFFICE |-> PresetFields(HM(6, 30), HM(23, 0), HM(8, 30), HM(17, 30), 90, 45, 25, 40,
                             HM(18, 0), HM(7, 0), HM(12, 0), HM(18, 30)),
     DEVELOPER |-> PresetFields(HM(7, 30), HM(0, 0), HM(10, 0), HM(19, 0), 90, 60, 20, 40,
                                HM(19, 30), HM(8, 0), HM(12, 30), HM(19, 30)),
     STUDENT |-> PresetFields(HM(6, 0), HM(22, 30), HM(7, 30), HM(17, 0), 120, 60, 30, 45,
                              HM(17, 30), HM(6, 30), HM(11, 30), HM(18, 0)),
     FITNESS |-> PresetFields(HM(5, 30), HM(22, 0), HM(8, 0), HM(17, 0), 120, 30, 30, 45,
                              HM(6, 0), HM(7, 0), HM(12, 0), HM(18, 0))]

\* Variant: apply_preset leaves the posture baseline alone
PresetTsOrder_NoPosture == <<"last_water_ts", "last_break_ts", "last_eye_ts">>

\* The baselines apply_preset samples, in the order of its int(time.time()) calls
PresetTsOrder == <<"last_water_ts", "last_break_ts", "last_eye_ts", "last_posture_ts">>

\* action.startswith("PRESET_") and action.replace("PRESET_", "")
PresetOf ==
    [PRESET_STANDARD |-> "STANDARD", PRESET_OFFICE |-> "OFFICE", PRESET_DEVELOPER |-> "DEVELOPER",
     PRESET_STUDENT |-> "STUDENT", PRESET_FITNESS |-> "FITNESS", PRESET_NIGHT |-> "NIGHT"]

IsPresetAction(a) == a \in DOMAIN PresetOf

\* The interval category a TOGGLE_<C> button switches
ToggleCat == [TOGGLE_BREAK |-> "break", TOGGLE_WATER |-> "water",
              TOGGLE_EYE |-> "eye", TOGGLE_POSTURE |-> "posture"]

\* The flag a plain toggle button switches
ToggleFlag == [TOGGLE_BOT |-> "enabled", TOGGLE_WORK |-> "work_enabled",
               TOGGLE_EXERCISE |-> "exercise_enabled", TOGGLE_MEAL |-> "meal_enabled"]

NoPatch == <<>>

\* One record with the single field f
Field(f, v) == [x \in {f} |-> v]

\* Variant: a category toggle switches the flag and leaves the baseline alone
HandlerPatch_KeepBaseline(u, a, t) ==
    IF a \in DOMAIN ToggleFlag
    THEN Field(ToggleFlag[a], ~GetFlag(u, ToggleFlag[a]))
    ELSE IF a \in DOMAIN ToggleCat
    THEN Field(EnabledField[ToggleCat[a]], ~GetFlag(u, EnabledField[ToggleCat[a]]))
    ELSE IF IsPresetAction(a)
    THEN IF PresetOf[a] \in DOMAIN presets
         THEN Merge(presets[PresetOf[a]], Field(PresetTsOrder[1], t))
         ELSE NoPatch
    ELSE IF a = "/on" THEN Field("enabled", TRUE)
    ELSE IF a = "/off" THEN Field("enabled", FALSE)
    ELSE NoPatch

\* Variant: a preset also empties last_fire
HandlerPatch_ClearMarks(u, a, t) ==
    IF IsPresetAction(a) /\ PresetOf[a] \in DOMAIN presets
    THEN Merge(HandlerPatch_KeepBaseline(u, a, t), Field("last_fire", <<>>))
    ELSE HandlerPatch_KeepBaseline(u, a, t)

\* The patch the handler builds for an update of user record u at time t
\* (NoPatch: the update changes nothing). For a known preset this is the
\* preset with the first of its four baselines sampled.
HandlerPatch(u, a, t) ==
    IF a \in DOMAIN ToggleFlag
    THEN Field(ToggleFlag[a], ~GetFlag(u, ToggleFlag[a]))
    ELSE IF a \in DOMAIN ToggleCat
    THEN LET c == ToggleCat[a]
             newv == ~GetFlag(u, EnabledField[c])
         IN  IF newv THEN Merge(Field(EnabledField[c], newv), Field(TsField[c], t))
             ELSE Field(EnabledField[c], newv)
    ELSE IF IsPresetAction(a)
    THEN IF PresetOf[a] \in DOMAIN presets
         THEN Merge(presets[PresetOf[a]], Field(PresetTsOrder[1], t))
         ELSE NoPatch
    ELSE IF a = "/on" THEN Field("enabled", TRUE)
    ELSE IF a = "/off" THEN Field("enabled", FALSE)
    ELSE NoPatch

\* ------------------------------------------------------------------------
\* Scheduler logic
\* ------------------------------------------------------------------------
\* Variant: the work events do not look at the weekday
PointGate_AnyDay(u, ev, weekday) ==
    CASE ev \in {"wake", "sleep"} -> TRUE
      [] ev \in {"work_start", "work_end"} -> GetFlag(u, "work_enabled")
      [] ev = "exercise" -> GetFlag(u, "exercise_enabled")
      [] OTHER -> GetFlag(u, "meal_enabled")

\* The condition under which scheduler_loop looks at a point event at all
PointGate(u, ev, weekday) ==
    CASE ev \in {"wake", "sleep"} -> TRUE
      [] ev \in {"work_start", "work_end"} ->
            GetFlag(u, "work_enabled") /\ weekday \in GetDays(u)
      [] ev = "exercise" -> GetFlag(u, "exercise_enabled")
      [] OTHER -> GetFlag(u, "meal_enabled")

should_fire_once_per_minute(u, event_key, t) ==
    LET lf == GetLastFire(u)
    IN  ~(event_key \in DOMAIN lf /\ lf[event_key] = key_at(t))

\* Variant: mark_fired stamps every point event with the minute key
mark_fired_patch_AllEvents(u, event_key, t) ==
    Field("last_fire", [k \in PointKeys |-> key_at(t)])

\* The patch mark_fired hands to update_user: the last_fire of the record u
\* it was given, with the one key set
mark_fired_patch(u, event_key, t) ==
    LET lf == GetLastFire(u)
    IN  Field("last_fire",
              [k \in DOMAIN lf \cup {event_key} |-> IF k = event_key THEN key_at(t) ELSE lf[k]])

PointDue(u, ev, t) ==
    /\ PointGate(u, ev, WeekdayOf(t))
    /\ HHMM(t) = GetStr(u, TimeField[ev])
    /\ should_fire_once_per_minute(u, ev, t)

\* Variant: the interval branch without the window test
IntervalDecision_NoWindow(u, c, tnow, t) ==
    IF ~GetFlag(u, EnabledField[c]) THEN "skip"
    ELSE LET every_min == GetIntOr(u, EveryField[c], EveryDefault[c])
             last_ts == GetIntOr(u, TsField[c], 0)
         IN  IF last_ts = 0 THEN "seed"
             ELSE IF t - last_ts >= every_min * SecPerMin THEN "send"
             ELSE "skip"

\* Variant: the interval branch without the test of the category switch
IntervalDecision_NoSwitch(u, c, tnow, t) ==
    IF ~in_window(tnow, GetStrOr(u, WinStartField[c], WinStartDefault[c]),
                  GetStrOr(u, WinEndField[c], WinEndDefault[c])) THEN "skip"
    ELSE LET every_min == GetIntOr(u, EveryField[c], EveryDefault[c])
             last_ts == GetIntOr(u, TsField[c], 0)
         IN  IF last_ts = 0 THEN "seed"
             ELSE IF t - last_ts >= every_min * SecPerMin THEN "send"
             ELSE "skip"

\* Variant: the interval branch comparing the elapsed seconds with the minutes
IntervalDecision_Minutes(u, c, tnow, t) ==
    IF ~GetFlag(u, EnabledField[c]) THEN "skip"
    ELSE IF ~in_window(tnow, GetStrOr(u, WinStartField[c], WinStartDefault[c]),
                       GetStrOr(u, WinEndField[c], WinEndDefault[c])) THEN "skip"
    ELSE LET every_min == GetIntOr(u, EveryField[c], EveryDefault[c])
             last_ts == GetIntOr(u, TsField[c], 0)
         IN  IF last_ts = 0 THEN "seed"
             ELSE IF t - last_ts >= every_min THEN "send"
             ELSE "skip"

\* The interval branch of scheduler_loop for category c, with now the tick's
\* instant and t the value of time.time(): "skip", "seed" or "send"
IntervalDecision(u, c, tnow, t) ==
    IF ~GetFlag(u, EnabledField[c]) THEN "skip"
    ELSE IF ~in_window(tnow, GetStrOr(u, WinStartField[c], WinStartDefault[c]),
                       GetStrOr(u, WinEndField[c], WinEndDefault[c])) THEN "skip"
    ELSE LET every_min == GetIntOr(u, EveryField[c], EveryDefault[c])
             last_ts == GetIntOr(u, TsField[c], 0)
         IN  IF last_ts = 0 THEN "seed"
             ELSE IF t - last_ts >= every_min * SecPerMin THEN "send"
             ELSE "skip"

\* Variant: the scheduler records a due event without handing it to tg_send
Decision_RecordOnly(u, ev, tnow, t) ==
    IF ev \in PointKeys
    THEN IF PointDue(u, ev, tnow) THEN "seed" ELSE "skip"
    ELSE IF IntervalDecision(u, ev, tnow, t) = "send" THEN "seed"
         ELSE IntervalDecision(u, ev, tnow, t)

\* What scheduler_loop does for event ev of snapshot record u
Decision(u, ev, tnow, t) ==
    IF ev \in PointKeys
    THEN IF PointDue(u, ev, tnow) THEN "send" ELSE "skip"
    ELSE IntervalDecision(u, ev, tnow, t)

\* ------------------------------------------------------------------------
\* Initial states: the clock at start-up and the contents of the users file
\* ------------------------------------------------------------------------
\* Monday 2025-03-03 18:30:00 local time
StartInstants == {1741001400}

\* A user who has been served before and has switched eye care and posture
\* off: water falls due 20 s after the start
RunningUser(t0) ==
    Merge(DefaultUser, [last_water_ts |-> t0 - 3600 + 20, last_break_ts |-> t0 - 7200,
                        eye_enabled |-> FALSE, last_eye_ts |-> t0 - 7200,
                        posture_enabled |-> FALSE, last_posture_ts |-> t0 - 7200])

\* A hand-edited record: non-positive intervals, an unparsable window start,
\* a one-minute break interval in a window that holds the start instant
OddUser(t0) ==
    Merge(DefaultUser, [water_every_min |-> -1, last_water_ts |-> t0 - 600,
                        eye_every_min |-> 0, last_eye_ts |-> t0 - 1800 + 20,
                        posture_window_start |-> <<"8", "h">>, last_posture_ts |-> t0 - 7200,
                        break_every_min |-> 1, break_window_end |-> HM(19, 0)])

StoreOf(ks, rs) == [keys |-> ks, rec |-> [k \in {ks[i] : i \in 1..Len(ks)} |->
                                            rs[CHOOSE i \in 1..Len(ks) : ks[i] = k]]]

K101 == IntToStr(101)

K102 == IntToStr(102)

KBad == <<"x">>

\* The users file at start-up: none; a served user, a record under a key that
\* is no chat id, and a fresh user; a hand-edited record
InitStores(t0) ==
    {EmptyStore,
     StoreOf(<<K101, KBad, K102>>, <<RunningUser(t0), DefaultUser, DefaultUser>>),
     StoreOf(<<K101>>, <<OddUser(t0)>>)}

\* The updates the model delivers
ChatIds == {101}

Inputs == {"TOGGLE_BOT", "TOGGLE_WATER", "PRESET_DEVELOPER"}

\* ------------------------------------------------------------------------
\* State
\* ------------------------------------------------------------------------
VARIABLES
    clock,      \* time.time(), in seconds
    store,      \* the users of assistant_users.json
    shutdown,   \* shutdown_event
    \* scheduler_loop
    spc,        \* "top", "user", "eval", "write", "sleep", "exit", "dead"
    users,      \* the snapshot of the tick (data.get("users"))
    now,        \* the instant of the tick (now_vn())
    ui,         \* position in list(users.items())
    ek,         \* position in EventOrder
    tick,       \* number of ticks begun
    \* handle_updates_forever
    upc,        \* "poll", "preset", "commit"
    ucid,       \* chat id of the update being handled
    uact,       \* its callback data or command
    patch,      \* the patch being built
    todo,       \* apply_preset: baselines still to sample
    nupd,       \* number of updates received
    uT,         \* when the update being handled was received
    \* history
    log,        \* the reminders handed to tg_send
    last,       \* what the latest step did
    evald,      \* keys of the users the tick has reached
    seeds,      \* the baselines the scheduler has seeded
    offFlags,   \* the (key, flag) pairs whose latest committed value is off
    tickOff,    \* offFlags when the tick loaded its snapshot
    resets,     \* latest committed re-enable or preset of each (key, category)
    tickResets, \* resets when the tick loaded its snapshot
    \* the store operations, step by step (SpecIO)
    lock,       \* holder of _io_lock: "none", "S" (scheduler) or "U" (update loop)
    sdata,      \* data of the update_user call of the scheduler
    udata,      \* data of the ensure_user or update_user call of the update loop
    iofails,    \* number of failed loads and saves
    failtick,   \* the latest tick whose load of the snapshot failed (0: none)
    born,       \* history: the (key, field) pairs that have been stored
    \* a function under test (SpecWin)
    fn,         \* its arguments and result
    \* history of the shutdown signal (SpecStop)
    sigAt       \* where the scheduler was when shutdown_event was set

svars == <<spc, users, now, ui, ek, tick>>

uvars == <<upc, ucid, uact, patch, todo, nupd, uT>>

hvars == <<log, evald, seeds, offFlags, tickOff, resets, tickResets>>

xvars == <<lock, sdata, udata, iofails, failtick, born, fn, sigAt>>

vars == <<clock, store, shutdown, svars, uvars, hvars, last, xvars>>

Idle == [op |-> "none"]

\* What load_json returned to a store operation that has not begun
NoData == [ok |-> TRUE, data |-> EmptyStore]

Init ==
    /\ clock \in StartInstants
    /\ store \in InitStores(clock)
    /\ shutdown = FALSE
    /\ spc = "top" /\ users = EmptyStore /\ now = 0 /\ ui = 1 /\ ek = 1 /\ tick = 0
    /\ upc = "poll" /\ ucid = 0 /\ uact = "" /\ patch = NoPatch /\ todo = <<>> /\ nupd = 0
    /\ uT = 0
    /\ log = {} /\ last = Idle /\ evald = {} /\ seeds = {}
    /\ offFlags = {} /\ tickOff = {} /\ resets = {} /\ tickResets = {}
    /\ lock = "none" /\ sdata = NoData /\ udata = NoData /\ iofails = 0
    /\ failtick = 0 /\ born = {} /\ fn = Idle /\ sigAt = Idle

\* ------------------------------------------------------------------------
\* Environment
\* ------------------------------------------------------------------------
\* _handle_signal. shutdown_event is read at the top of the loop only, so a
\* signal that arrives during a tick is delivered when the tick is over.
Signal ==
    /\ ~shutdown
    /\ spc = "sleep"
    /\ shutdown' = TRUE
    /\ last' = Idle
    /\ UNCHANGED <<clock, store, svars, uvars, hvars>>
    /\ UNCHANGED xvars

\* tg_send: success at once, or failure after the timeouts have run out
SendOutcomes == {[ok |-> TRUE, d |-> 0], [ok |-> FALSE, d |-> SendDelay]}

\* time.sleep(SCHED_TICK): the time it takes
SleepTimes == {SCHED_TICK, LongPause}

\* ------------------------------------------------------------------------
\* scheduler_loop
\* ------------------------------------------------------------------------
CurKey == users.keys[ui]

CurUser == users.rec[CurKey]

CurEvent == EventOrder[ek]

\* while not shutdown_event.is_set(): the loop ends
SchedExit ==
    /\ spc = "top" /\ shutdown
    /\ spc' = "exit"
    /\ last' = Idle
    /\ UNCHANGED <<clock, store, shutdown, users, now, ui, ek, tick, uvars, hvars>>
    /\ UNCHANGED xvars

\* Variant: the loop condition is not tested
BeginTick_IgnoreSignal ==
    /\ spc = "top"
    /\ tick < MaxTicks
    /\ users' = store
    /\ now' = clock
    /\ ui' = 1 /\ ek' = 1
    /\ tick' = tick + 1
    /\ spc' = "user"
    /\ evald' = {}
    /\ tickOff' = offFlags
    /\ tickResets' = resets
    /\ last' = [op |-> "load"]
    /\ UNCHANGED <<clock, store, shutdown, uvars, log, seeds, offFlags, resets>>
    /\ UNCHANGED xvars

\* A tick begins: get_users() and now_vn()
BeginTick ==
    /\ spc = "top" /\ ~shutdown
    /\ tick < MaxTicks
    /\ users' = store
    /\ now' = clock
    /\ ui' = 1 /\ ek' = 1
    /\ tick' = tick + 1
    /\ spc' = "user"
    /\ evald' = {}
    /\ tickOff' = offFlags
    /\ tickResets' = resets
    /\ last' = [op |-> "load"]
    /\ UNCHANGED <<clock, store, shutdown, uvars, log, seeds, offFlags, resets>>
    /\ UNCHANGED xvars

\* The for loop is over
EndTick ==
    /\ spc = "user" /\ ui > Len(users.keys)
    /\ spc' = "sleep"
    /\ last' = [op |-> "end"]
    /\ UNCHANGED <<clock, store, shutdown, users, now, ui, ek, tick, uvars, hvars>>
    /\ UNCHANGED xvars

\* Variant: the master switch is not consulted
UserEnabled_Always(u) == TRUE

\* u.get("enabled"), the master switch
UserEnabled(u) == GetFlag(u, "enabled")

\* if not u.get("enabled"): continue
SkipUser ==
    /\ spc = "user" /\ ui <= Len(users.keys)
    /\ ~UserEnabled(CurUser)
    /\ ui' = ui + 1
    /\ evald' = evald \cup {CurKey}
    /\ last' = [op |-> "skipuser", key |-> CurKey]
    /\ UNCHANGED <<clock, store, shutdown, spc, users, now, ek, tick, uvars,
                   log, seeds, offFlags, tickOff, resets, tickResets>>
    /\ UNCHANGED xvars

\* chat_id = int(cid_str)
EnterUser ==
    /\ spc = "user" /\ ui <= Len(users.keys)
    /\ UserEnabled(CurUser)
    /\ IntOk(CurKey)
    /\ spc' = "eval" /\ ek' = 1
    /\ evald' = evald \cup {CurKey}
    /\ last' = [op |-> "enter", key |-> CurKey]
    /\ UNCHANGED <<clock, store, shutdown, users, now, ui, tick, uvars,
                   log, seeds, offFlags, tickOff, resets, tickResets>>
    /\ UNCHANGED xvars

\* Variant: the exception leaves scheduler_loop and ends its thread
AfterRaise_Dead == "dead"

\* Where an exception raised inside the try block of the tick takes the loop:
\* except Exception logs it, and the loop goes on to time.sleep
AfterRaise == "sleep"

\* int(cid_str) raises ValueError
RaiseUser ==
    /\ spc = "user" /\ ui <= Len(users.keys)
    /\ UserEnabled(CurUser)
    /\ ~IntOk(CurKey)
    /\ spc' = AfterRaise
    /\ evald' = evald \cup {CurKey}
    /\ last' = [op |-> "raise", key |-> CurKey]
    /\ UNCHANGED <<clock, store, shutdown, users, now, ui, ek, tick, uvars,
                   log, seeds, offFlags, tickOff, resets, tickResets>>
    /\ UNCHANGED xvars

\* The first event at or after position from that scheduler_loop acts on, with
\* tnow the tick's instant and t the value of time.time(); 0 when there is none.
\* The events before it are passed over without the clock advancing.
RECURSIVE NextDue(_, _, _, _)
NextDue(u, from, tnow, t) ==
    IF from > Len(EventOrder) THEN 0
    ELSE IF Decision(u, EventOrder[from], tnow, t) # "skip" THEN from
    ELSE NextDue(u, from + 1, tnow, t)

\* Variant: once a point event of the user has been sent in the tick, the
\* user's other events are passed over
DueNow_OnePointEvent ==
    IF \E e \in log : e.key = CurKey /\ e.tick = tick /\ e.ev \in PointKeys
    THEN 0
    ELSE NextDue(CurUser, ek, now, clock)

DueNow == NextDue(CurUser, ek, now, clock)

\* The entry of log for a reminder handed to tg_send
LogEntry(ev, ok) ==
    [key |-> CurKey, ev |-> ev, tick |-> tick, now |-> now, t |-> clock, ok |-> ok,
     every |-> IF ev \in IntervalCats THEN GetIntOr(CurUser, EveryField[ev], 0) ELSE 0,
     base |-> IF ev \in IntervalCats THEN GetIntOr(CurUser, TsField[ev], 0) ELSE 0]

Failures == Cardinality({e \in log : ~e.ok})

\* None of the remaining events of the user is due: on to the next user
EvalRest ==
    /\ spc = "eval"
    /\ DueNow = 0
    /\ spc' = "user" /\ ui' = ui + 1 /\ ek' = 1
    /\ last' = [op |-> "rest", key |-> CurKey, ev |-> "", t |-> clock,
                 from |-> ek, upto |-> Len(EventOrder)]
    /\ UNCHANGED <<clock, store, shutdown, users, now, tick, uvars, hvars>>
    /\ UNCHANGED xvars

\* An interval category without baseline: no reminder, the baseline is written next
EvalSeed ==
    /\ spc = "eval"
    /\ DueNow # 0
    /\ Decision(CurUser, EventOrder[DueNow], now, clock) = "seed"
    /\ ek' = DueNow
    /\ spc' = "write"
    /\ last' = [op |-> "seed", key |-> CurKey, ev |-> EventOrder[DueNow], t |-> clock,
                 from |-> ek, upto |-> DueNow - 1]
    /\ UNCHANGED <<clock, store, shutdown, users, now, ui, tick, uvars, hvars>>
    /\ UNCHANGED xvars

\* An event is due: tg_send, which takes its time and reports success or failure
EvalSend ==
    /\ spc = "eval"
    /\ DueNow # 0
    /\ Decision(CurUser, EventOrder[DueNow], now, clock) = "send"
    /\ \E o \in SendOutcomes :
          /\ o.ok \/ Failures < MaxFail
          /\ log' = log \cup {LogEntry(EventOrder[DueNow], o.ok)}
          /\ clock' = clock + o.d
    /\ ek' = DueNow
    /\ spc' = "write"
    /\ last' = [op |-> "send", key |-> CurKey, ev |-> EventOrder[DueNow], t |-> clock,
                 from |-> ek, upto |-> DueNow - 1]
    /\ UNCHANGED <<store, shutdown, users, now, ui, tick, uvars,
                   evald, seeds, offFlags, tickOff, resets, tickResets>>
    /\ UNCHANGED xvars

\* Variant: the scheduler stores the record of its snapshot with the mark
\* or baseline set
SchedPatch_WholeRecord(u, ev, tnow, t) ==
    Merge(u, IF ev \in PointKeys THEN mark_fired_patch(u, ev, tnow) ELSE Field(TsField[ev], t))

\* Variant: the baseline of an interval category is written back unchanged
SchedPatch_KeepBaseline(u, ev, tnow, t) ==
    IF ev \in PointKeys THEN mark_fired_patch(u, ev, tnow)
    ELSE Field(TsField[ev], GetIntOr(u, TsField[ev], 0))

\* The patch the scheduler writes after a send or for a seed
SchedPatch(u, ev, tnow, t) ==
    IF ev \in PointKeys THEN mark_fired_patch(u, ev, tnow) ELSE Field(TsField[ev], t)

\* mark_fired, or update_user(chat_id, {"last_<c>_ts": int(time.time())})
SchedWrite ==
    /\ spc = "write"
    /\ store' = update_user(store, IntOf(CurKey), SchedPatch(CurUser, CurEvent, now, clock))
    /\ spc' = "eval" /\ ek' = ek + 1
    /\ seeds' = IF last.op = "seed"
                THEN seeds \cup {[key |-> CurKey, cat |-> CurEvent, tick |-> tick, t |-> clock]}
                ELSE seeds
    /\ last' = [op |-> "write", key |-> CurKey, ev |-> CurEvent, t |-> clock, pre |-> store]
    /\ UNCHANGED <<clock, shutdown, users, now, ui, tick, uvars,
                   log, evald, offFlags, tickOff, resets, tickResets>>
    /\ UNCHANGED xvars

\* time.sleep(SCHED_TICK) returns; the locals of the finished tick are dead
Wake ==
    /\ spc = "sleep"
    /\ \E d \in SleepTimes : clock' = clock + d
    /\ spc' = "top"
    /\ users' = EmptyStore /\ now' = 0 /\ ui' = 1 /\ ek' = 1
    /\ evald' = {} /\ tickOff' = {} /\ tickResets' = {}
    /\ last' = Idle
    /\ UNCHANGED <<store, shutdown, tick, uvars, log, seeds, offFlags, resets>>
    /\ UNCHANGED xvars

\* ------------------------------------------------------------------------
\* handle_updates_forever
\* ------------------------------------------------------------------------
\* The switches of a user record
FlagFields == {"enabled", "work_enabled", "break_enabled", "water_enabled", "eye_enabled",
               "posture_enabled", "exercise_enabled", "meal_enabled"}

\* History: the switches that are off after patch p is committed for key k
OffAfter(off, k, p) ==
    {x \in off : ~(x[1] = k /\ x[2] \in DOMAIN p)}
    \cup {<<k, f>> : f \in {g \in FlagFields \cap DOMAIN p : ~p[g]}}

\* History: the categories that update a, received at time t, re-enables
\* (a toggle that switches the category on) or re-initialises (a known preset)
ResetCats(a, p) ==
    IF a \in DOMAIN ToggleCat
    THEN IF GetFlag(p, EnabledField[ToggleCat[a]]) THEN {ToggleCat[a]} ELSE {}
    ELSE IF IsPresetAction(a) /\ p # NoPatch THEN IntervalCats
    ELSE {}

ResetsAfter(rs, k, a, p, t, rec) ==
    {r \in rs : ~(r.key = k /\ r.cat \in ResetCats(a, p))}
    \cup {[key |-> k, cat |-> c, kind |-> IF IsPresetAction(a) THEN "preset" ELSE "toggle",
           t |-> IF TsField[c] \in DOMAIN p THEN p[TsField[c]] ELSE t,
           every |-> GetIntOr(rec, EveryField[c], 0)] : c \in ResetCats(a, p)}

\* An update arrives: ensure_user, and the handler builds its patch. Of the
\* four baselines of a preset the first is sampled here.
Receive ==
    /\ upc = "poll"
    /\ nupd < MaxUpdates
    /\ \E c \in ChatIds, a \in Inputs :
          LET p == HandlerPatch(ensure_user(store, c), a, clock)
          IN  /\ ucid' = c /\ uact' = a
              /\ store' = ensure_user_store(store, c)
              /\ patch' = p
              /\ todo' = IF IsPresetAction(a) /\ p # NoPatch THEN Tail(PresetTsOrder) ELSE <<>>
              /\ upc' = IF p = NoPatch THEN "poll"
                        ELSE IF IsPresetAction(a) THEN "preset" ELSE "commit"
    /\ nupd' = nupd + 1
    /\ uT' = clock
    /\ last' = [op |-> "receive"]
    /\ UNCHANGED <<clock, shutdown, svars, hvars>>
    /\ UNCHANGED xvars

\* apply_preset: patch["last_<c>_ts"] = int(time.time()) for the other three
\* baselines, which the thread samples after it may have been interrupted
PresetSample ==
    /\ upc = "preset"
    /\ patch' = Merge(patch, [f \in {todo[i] : i \in 1..Len(todo)} |-> clock])
    /\ todo' = <<>>
    /\ upc' = "commit"
    /\ last' = Idle
    /\ UNCHANGED <<clock, store, shutdown, svars, ucid, uact, nupd, uT, hvars>>
    /\ UNCHANGED xvars

\* update_user(cid, patch)
Commit ==
    /\ upc = "commit"
    /\ store' = update_user(store, ucid, patch)
    /\ offFlags' = OffAfter(offFlags, IntToStr(ucid), patch)
    /\ resets' = ResetsAfter(resets, IntToStr(ucid), uact, patch, uT, store'.rec[IntToStr(ucid)])
    /\ upc' = "poll"
    /\ patch' = NoPatch /\ ucid' = 0 /\ uact' = "" /\ uT' = 0
    /\ last' = [op |-> "commit", key |-> IntToStr(ucid), act |-> uact, t |-> uT,
                 cats |-> ResetCats(uact, patch),
                 lf |-> IF HasUser(store, IntToStr(ucid))
                        THEN GetLastFire(store.rec[IntToStr(ucid)]) ELSE <<>>]
    /\ UNCHANGED <<clock, shutdown, svars, todo, nupd, log, evald, seeds, tickOff, tickResets>>
    /\ UNCHANGED xvars

Next ==
    \/ Signal
    \/ SchedExit
    \/ BeginTick
    \/ EndTick
    \/ SkipUser
    \/ EnterUser
    \/ RaiseUser
    \/ EvalRest
    \/ EvalSeed
    \/ EvalSend
    \/ SchedWrite
    \/ Wake
    \/ Receive
    \/ PresetSample
    \/ Commit

Spec == Init /\ [][Next]_vars

\* ------------------------------------------------------------------------
\* Shutdown: the signal arrives at any moment, and the scheduler thread
\* keeps running
\* ------------------------------------------------------------------------
\* _handle_signal: shutdown_event.set(), wherever the scheduler is
SignalAny ==
    /\ ~shutdown
    /\ spc # "exit"
    /\ shutdown' = TRUE
    /\ sigAt' = [op |-> "signal", spc |-> spc, tick |-> tick, sent |-> Cardinality(log)]
    /\ UNCHANGED <<clock, store, svars, uvars, hvars, last>>
    /\ UNCHANGED <<lock, sdata, udata, iofails, failtick, born, fn>>

\* The steps of the scheduler thread outside the evaluation of a user's events
SchedStep ==
    \/ SchedExit
    \/ BeginTick
    \/ EndTick
    \/ SkipUser
    \/ EnterUser
    \/ RaiseUser
    \/ SchedWrite
    \/ Wake

\* The steps of the scheduler thread in the evaluation of a user's events
EvalStep == EvalRest \/ EvalSeed \/ EvalSend

\* The users files: one whose users are all evaluated, and one with a key
\* that makes the tick raise
StopStores(t0) ==
    {StoreOf(<<K101, K102>>, <<RunningUser(t0), Merge(DefaultUser, [enabled |-> FALSE])>>),
     StoreOf(<<K101, KBad>>, <<DefaultUser, DefaultUser>>)}

\* The update loop neither reads nor writes the loop condition, the position
\* of the scheduler or its tick count: it has no update to handle here
InitStop ==
    /\ clock \in StartInstants
    /\ store \in StopStores(clock)
    /\ shutdown = FALSE
    /\ spc = "top" /\ users = EmptyStore /\ now = 0 /\ ui = 1 /\ ek = 1 /\ tick = 0
    /\ upc = "poll" /\ ucid = 0 /\ uact = "" /\ patch = NoPatch /\ todo = <<>> /\ nupd = 0
    /\ uT = 0
    /\ log = {} /\ last = Idle /\ evald = {} /\ seeds = {}
    /\ offFlags = {} /\ tickOff = {} /\ resets = {} /\ tickResets = {}
    /\ lock = "none" /\ sdata = NoData /\ udata = NoData /\ iofails = 0
    /\ failtick = 0 /\ born = {} /\ fn = Idle /\ sigAt = Idle

NextStop ==
    \/ SignalAny
    \/ SchedExit
    \/ BeginTick
    \/ EndTick
    \/ SkipUser
    \/ EnterUser
    \/ RaiseUser
    \/ EvalRest
    \/ EvalSeed
    \/ EvalSend
    \/ SchedWrite
    \/ Wake

\* The scheduler thread is scheduled again and again; tg_send, the store
\* operations and time.sleep return. The second condition is weak fairness
\* of EvalStep, which is enabled exactly where spc = "eval".
SpecStop ==
    /\ InitStop /\ [][NextStop]_vars
    /\ WF_vars(SchedStep)
    /\ ([]<>(spc # "eval") \/ []<><<EvalStep>>_vars)

\* ------------------------------------------------------------------------
\* The store operations step by step: _io_lock, load_json and save_json with
\* their failures
\* ------------------------------------------------------------------------
\* Variant: a failed load gives a users object with one default record
load_default_OneUser == StoreOf(<<K101>>, <<DefaultUser>>)

\* What load_json returns when the file cannot be read: {"users": {}}
load_default == EmptyStore

\* Variant: _io_lock is not taken
CanAcquire_NoLock(l) == TRUE

\* with _io_lock: the lock can be taken
CanAcquire(l) == l = "none"

\* Variant: the lock is still held when the with block is left
Release_Never(l) == l

\* The end of a with _io_lock: block, by return or by exception: the lock is
\* released
Release(l) == "none"

\* get_users(): the file, or the default when load_json fails
LoadOutcomes ==
    {[ok |-> TRUE, data |-> store]}
    \cup (IF iofails < MaxIOFail THEN {[ok |-> FALSE, data |-> load_default]} ELSE {})

\* set_users(d): whether save_json succeeds
SaveOutcomes == {TRUE} \cup (IF iofails < MaxIOFail THEN {FALSE} ELSE {})

\* History: the (key, field) pairs of store d
Pairs(d) == UNION {{<<k, f>> : f \in DOMAIN d.rec[k]} : k \in DOMAIN d.rec}

\* A user who never asked for reminders
IdleUser == Merge(DefaultUser, [enabled |-> FALSE])

\* Every key of the users file is a chat id, so int(cid_str) does not raise
IOStore(t0) == StoreOf(<<K101, K102>>, <<RunningUser(t0), IdleUser>>)

InitIO ==
    /\ clock \in StartInstants
    /\ store = IOStore(clock)
    /\ shutdown = FALSE
    /\ spc = "top" /\ users = EmptyStore /\ now = 0 /\ ui = 1 /\ ek = 1 /\ tick = 0
    /\ upc = "poll" /\ ucid = 0 /\ uact = "" /\ patch = NoPatch /\ todo = <<>> /\ nupd = 0
    /\ uT = 0
    /\ log = {} /\ last = Idle /\ evald = {} /\ seeds = {}
    /\ offFlags = {} /\ tickOff = {} /\ resets = {} /\ tickResets = {}
    /\ lock = "none" /\ sdata = NoData /\ udata = NoData /\ iofails = 0
    /\ failtick = 0 /\ born = Pairs(store) /\ fn = Idle /\ sigAt = Idle

\* A tick begins: get_users(), without the lock, and now_vn()
IOBeginTick ==
    /\ spc = "top" /\ ~shutdown
    /\ tick < MaxTicks
    /\ \E o \in LoadOutcomes :
          /\ users' = o.data
          /\ iofails' = IF o.ok THEN iofails ELSE iofails + 1
          /\ failtick' = IF o.ok THEN failtick ELSE tick + 1
          /\ last' = [op |-> IF o.ok THEN "load" ELSE "loadfail"]
    /\ now' = clock
    /\ ui' = 1 /\ ek' = 1
    /\ tick' = tick + 1
    /\ spc' = "user"
    /\ evald' = {}
    /\ tickOff' = offFlags
    /\ tickResets' = resets
    /\ UNCHANGED <<clock, store, shutdown, uvars, log, seeds, offFlags, resets>>
    /\ UNCHANGED <<lock, sdata, udata, born, fn, sigAt>>

\* update_user of the scheduler: the lock is taken and the users are loaded
IOSchedLoad ==
    /\ spc = "write"
    /\ CanAcquire(lock)
    /\ lock' = "S"
    /\ \E o \in LoadOutcomes :
          /\ sdata' = o
          /\ iofails' = IF o.ok THEN iofails ELSE iofails + 1
    /\ spc' = "save"
    /\ UNCHANGED <<clock, store, shutdown, users, now, ui, ek, tick, uvars, hvars, last>>
    /\ UNCHANGED <<udata, failtick, born, fn, sigAt>>

\* update_user of the scheduler: u.update(patch), set_users(data), and the
\* lock is released
IOSchedSave ==
    /\ spc = "save"
    /\ \E ok \in SaveOutcomes :
          /\ store' = IF ok THEN update_user(sdata.data, IntOf(CurKey),
                                             SchedPatch(CurUser, CurEvent, now, clock))
                       ELSE store
          /\ iofails' = IF ok THEN iofails ELSE iofails + 1
          /\ last' = [op |-> "write", key |-> CurKey, ev |-> CurEvent, t |-> clock,
                       saved |-> ok, loaded |-> sdata.ok, pre |-> store,
                       patch |-> SchedPatch(CurUser, CurEvent, now, clock)]
    /\ born' = born \cup Pairs(store')
    /\ lock' = Release(lock)
    /\ sdata' = NoData
    /\ spc' = "eval" /\ ek' = ek + 1
    /\ seeds' = IF Decision(CurUser, CurEvent, now, clock) = "seed"
                THEN seeds \cup {[key |-> CurKey, cat |-> CurEvent, tick |-> tick, t |-> clock]}
                ELSE seeds
    /\ UNCHANGED <<clock, shutdown, users, now, ui, tick, uvars,
                   log, evald, offFlags, tickOff, resets, tickResets>>
    /\ UNCHANGED <<udata, failtick, fn, sigAt>>

\* An update arrives; ensure_user takes the lock and loads the users
IOReceiveLoad ==
    /\ upc = "poll"
    /\ nupd < MaxUpdates
    /\ CanAcquire(lock)
    /\ lock' = "U"
    /\ \E c \in ChatIds, a \in Inputs : ucid' = c /\ uact' = a
    /\ \E o \in LoadOutcomes :
          /\ udata' = o
          /\ iofails' = IF o.ok THEN iofails ELSE iofails + 1
    /\ nupd' = nupd + 1
    /\ upc' = "ensure"
    /\ last' = [op |-> "receive"]
    /\ UNCHANGED <<clock, store, shutdown, svars, patch, todo, uT, hvars>>
    /\ UNCHANGED <<sdata, failtick, born, fn, sigAt>>

\* ensure_user stores the defaults for an unknown user, releases the lock and
\* returns the record, from which the handler builds its patch
IOEnsureDone ==
    /\ upc = "ensure"
    /\ LET missing == ensure_user_store(udata.data, ucid) # udata.data
           u == ensure_user(udata.data, ucid)
           p == HandlerPatch(u, uact, clock)
       IN  /\ \E ok \in (IF missing THEN SaveOutcomes ELSE {TRUE}) :
                 /\ store' = IF missing /\ ok THEN ensure_user_store(udata.data, ucid) ELSE store
                 /\ iofails' = IF ok THEN iofails ELSE iofails + 1
           /\ patch' = p
           /\ todo' = IF IsPresetAction(uact) /\ p # NoPatch THEN Tail(PresetTsOrder) ELSE <<>>
           /\ upc' = IF p = NoPatch THEN "poll"
                     ELSE IF IsPresetAction(uact) THEN "preset" ELSE "commit"
    /\ born' = born \cup Pairs(store')
    /\ lock' = Release(lock)
    /\ udata' = NoData
    /\ uT' = clock
    /\ last' = [op |-> "ensure", key |-> IntToStr(ucid)]
    /\ UNCHANGED <<clock, shutdown, svars, ucid, uact, nupd, hvars>>
    /\ UNCHANGED <<sdata, failtick, fn, sigAt>>

\* update_user of the handler: the lock is taken and the users are loaded
IOCommitLoad ==
    /\ upc = "commit"
    /\ CanAcquire(lock)
    /\ lock' = "U"
    /\ \E o \in LoadOutcomes :
          /\ udata' = o
          /\ iofails' = IF o.ok THEN iofails ELSE iofails + 1
    /\ upc' = "save"
    /\ UNCHANGED <<clock, store, shutdown, svars, ucid, uact, patch, todo, nupd, uT, hvars, last>>
    /\ UNCHANGED <<sdata, failtick, born, fn, sigAt>>

\* update_user of the handler: u.update(patch), set_users(data), and the lock
\* is released
IOCommitSave ==
    /\ upc = "save"
    /\ \E ok \in SaveOutcomes :
          /\ store' = IF ok THEN update_user(udata.data, ucid, patch) ELSE store
          /\ iofails' = IF ok THEN iofails ELSE iofails + 1
          /\ offFlags' = IF ok THEN OffAfter(offFlags, IntToStr(ucid), patch) ELSE offFlags
          /\ resets' = IF ok THEN ResetsAfter(resets, IntToStr(ucid), uact, patch, uT,
                                              store'.rec[IntToStr(ucid)])
                        ELSE resets
          /\ last' = [op |-> "commit", key |-> IntToStr(ucid), act |-> uact, t |-> uT,
                       cats |-> IF ok THEN ResetCats(uact, patch) ELSE {},
                       saved |-> ok, loaded |-> udata.ok, pre |-> store,
                       patch |-> patch]
    /\ born' = born \cup Pairs(store')
    /\ lock' = Release(lock)
    /\ udata' = NoData
    /\ upc' = "poll"
    /\ patch' = NoPatch /\ ucid' = 0 /\ uact' = "" /\ uT' = 0
    /\ UNCHANGED <<clock, shutdown, svars, todo, nupd, log, evald, seeds, tickOff, tickResets>>
    /\ UNCHANGED <<sdata, failtick, fn, sigAt>>

NextIO ==
    \/ Signal
    \/ SchedExit
    \/ IOBeginTick
    \/ EndTick
    \/ SkipUser
    \/ EnterUser
    \/ EvalRest
    \/ EvalSeed
    \/ EvalSend
    \/ IOSchedLoad
    \/ IOSchedSave
    \/ Wake
    \/ IOReceiveLoad
    \/ IOEnsureDone
    \/ PresetSample
    \/ IOCommitLoad
    \/ IOCommitSave

SpecIO == InitIO /\ [][NextIO]_vars

\* ------------------------------------------------------------------------
\* The scheduler over two days: the process is suspended for a day
\* ------------------------------------------------------------------------
\* Friday 2025-03-07 18:00:00 local time
CalInstants == {t0 + 4 * SecPerDay - 1800 : t0 \in StartInstants}

\* A user who has dinner when work ends, at 18:00, with water not yet seeded
\* and the other interval categories switched off
CalUser ==
    Merge(DefaultUser, [dinner_time |-> HM(18, 0), break_enabled |-> FALSE,
                        eye_enabled |-> FALSE, posture_enabled |-> FALSE])

\* The same with the work reminders and water switched off
CalUserNoWork == Merge(CalUser, [work_enabled |-> FALSE, water_enabled |-> FALSE])

\* Every key of the users file is a chat id, so int(cid_str) does not raise
CalStore == StoreOf(<<K101, K102>>, <<CalUser, CalUserNoWork>>)

InitCal ==
    /\ clock \in CalInstants
    /\ store = CalStore
    /\ shutdown = FALSE
    /\ spc = "top" /\ users = EmptyStore /\ now = 0 /\ ui = 1 /\ ek = 1 /\ tick = 0
    /\ upc = "poll" /\ ucid = 0 /\ uact = "" /\ patch = NoPatch /\ todo = <<>> /\ nupd = 0
    /\ uT = 0
    /\ log = {} /\ last = Idle /\ evald = {} /\ seeds = {}
    /\ offFlags = {} /\ tickOff = {} /\ resets = {} /\ tickResets = {}
    /\ lock = "none" /\ sdata = NoData /\ udata = NoData /\ iofails = 0
    /\ failtick = 0 /\ born = {} /\ fn = Idle /\ sigAt = Idle

\* time.sleep(SCHED_TICK) returns a day later
WakeNextDay ==
    /\ spc = "sleep"
    /\ clock' = clock + SecPerDay
    /\ spc' = "top"
    /\ users' = EmptyStore /\ now' = 0 /\ ui' = 1 /\ ek' = 1
    /\ evald' = {} /\ tickOff' = {} /\ tickResets' = {}
    /\ last' = Idle
    /\ UNCHANGED <<store, shutdown, tick, uvars, log, seeds, offFlags, resets>>
    /\ UNCHANGED xvars

NextCal ==
    \/ Signal
    \/ SchedExit
    \/ BeginTick
    \/ EndTick
    \/ SkipUser
    \/ EnterUser
    \/ EvalRest
    \/ EvalSeed
    \/ EvalSend
    \/ SchedWrite
    \/ Wake
    \/ WakeNextDay
    \/ Receive
    \/ PresetSample
    \/ Commit

SpecCal == InitCal /\ [][NextCal]_vars

\* ------------------------------------------------------------------------
\* in_window on its own: the arguments are drawn, the function is applied
\* ------------------------------------------------------------------------
\* Clock times, as hours and minutes
WinClockTimes == {<<0, 0>>, <<2, 0>>, <<6, 0>>, <<12, 0>>, <<22, 0>>, <<23, 30>>, <<23, 59>>}

\* Strings that are no clock time
WinBadStrings == {<<"2", "4", ":", "0", "0">>, <<"1", "2", ":", "6", "0">>,
                  <<"a", "b", ":", "c", "d">>, <<>>, <<"1", "2", "0", "0">>,
                  <<"-", "1", ":", "3", "0">>, None}

\* The start and end arguments: the string passed, and the clock time it
\* denotes (None when it denotes none)
WinArgs == {[hm |-> c, str |-> HM(c[1], c[2])] : c \in WinClockTimes}
           \cup {[hm |-> None, str |-> b] : b \in WinBadStrings}

\* The now arguments: instants of the day of the start instant
WinNows ==
    LET t0 == CHOOSE t \in StartInstants : TRUE
    IN  {t0 - SecOfDay(t0) + c[1] * 3600 + c[2] * SecPerMin + sec :
            c \in WinClockTimes, sec \in {0, 30}}

InitWin ==
    /\ clock \in StartInstants
    /\ store = EmptyStore
    /\ shutdown = FALSE
    /\ spc = "top" /\ users = EmptyStore /\ now = 0 /\ ui = 1 /\ ek = 1 /\ tick = 0
    /\ upc = "poll" /\ ucid = 0 /\ uact = "" /\ patch = NoPatch /\ todo = <<>> /\ nupd = 0
    /\ uT = 0
    /\ log = {} /\ last = Idle /\ evald = {} /\ seeds = {}
    /\ offFlags = {} /\ tickOff = {} /\ resets = {} /\ tickResets = {}
    /\ lock = "none" /\ sdata = NoData /\ udata = NoData /\ iofails = 0
    /\ failtick = 0 /\ born = {}
    /\ \E t \in WinNows, a \in WinArgs, b \in WinArgs :
          fn = [op |-> "args", now |-> t, start |-> a, end |-> b]
    /\ sigAt = Idle

\* in_window(now, start_hm, end_hm) is called
CallInWindow ==
    /\ fn.op = "args"
    /\ fn' = [op |-> "in_window", now |-> fn.now, start |-> fn.start, end |-> fn.end,
              res |-> in_window(fn.now, fn.start.str, fn.end.str)]
    /\ UNCHANGED <<clock, store, shutdown, svars, uvars, hvars, last,
                   lock, sdata, udata, iofails, failtick, born, sigAt>>

NextWin == CallInWindow

SpecWin == InitWin /\ [][NextWin]_vars

\* ------------------------------------------------------------------------
\* An evening: a user on the DEVELOPER preset at 19:30, the end of the
\* break window
\* ------------------------------------------------------------------------
\* Monday 2025-03-03 19:30:00
EveInstants == {t0 + 3600 : t0 \in StartInstants}

\* The user has applied the DEVELOPER preset (exercise and dinner at 19:30),
\* ends the break window at 19:30, drinks every minute and has switched eye
\* care off; break and water are due
EveUser(t0) ==
    Merge(Merge(DefaultUser, presets.DEVELOPER),
          [break_window_end |-> HM(19, 30), last_break_ts |-> t0 - 7200,
           water_every_min |-> 1, last_water_ts |-> t0 - 60,
           eye_enabled |-> FALSE, last_eye_ts |-> t0 - 7200,
           exercise_enabled |-> FALSE])

EveStore(t0) == StoreOf(<<K101>>, <<EveUser(t0)>>)

InitEve ==
    /\ clock \in EveInstants
    /\ store = EveStore(clock)
    /\ shutdown = FALSE
    /\ spc = "top" /\ users = EmptyStore /\ now = 0 /\ ui = 1 /\ ek = 1 /\ tick = 0
    /\ upc = "poll" /\ ucid = 0 /\ uact = "" /\ patch = NoPatch /\ todo = <<>> /\ nupd = 0
    /\ uT = 0
    /\ log = {} /\ last = Idle /\ evald = {} /\ seeds = {}
    /\ offFlags = {} /\ tickOff = {} /\ resets = {} /\ tickResets = {}
    /\ lock = "none" /\ sdata = NoData /\ udata = NoData /\ iofails = 0
    /\ failtick = 0 /\ born = {} /\ fn = Idle /\ sigAt = Idle

\* time.sleep(SCHED_TICK) returns late
WakeLate ==
    /\ spc = "sleep"
    /\ clock' = clock + LatePause
    /\ spc' = "top"
    /\ users' = EmptyStore /\ now' = 0 /\ ui' = 1 /\ ek' = 1
    /\ evald' = {} /\ tickOff' = {} /\ tickResets' = {}
    /\ last' = Idle
    /\ UNCHANGED <<store, shutdown, tick, uvars, log, seeds, offFlags, resets>>
    /\ UNCHANGED xvars

NextEve ==
    \/ Signal
    \/ SchedExit
    \/ BeginTick
    \/ EndTick
    \/ SkipUser
    \/ EnterUser
    \/ EvalRest
    \/ EvalSeed
    \/ EvalSend
    \/ SchedWrite
    \/ Wake
    \/ WakeLate
    \/ Receive
    \/ PresetSample
    \/ Commit

SpecEve == InitEve /\ [][NextEve]_vars

\* ------------------------------------------------------------------------
\* parse_hhmm and ensure_user as functions of their arguments
\* ------------------------------------------------------------------------
\* The program at rest: every variable but fn
AtRest ==
    /\ clock \in StartInstants
    /\ store = EmptyStore
    /\ shutdown = FALSE
    /\ spc = "top" /\ users = EmptyStore /\ now = 0 /\ ui = 1 /\ ek = 1 /\ tick = 0
    /\ upc = "poll" /\ ucid = 0 /\ uact = "" /\ patch = NoPatch /\ todo = <<>> /\ nupd = 0
    /\ uT = 0
    /\ log = {} /\ last = Idle /\ evald = {} /\ seeds = {}
    /\ offFlags = {} /\ tickOff = {} /\ resets = {} /\ tickResets = {}
    /\ lock = "none" /\ sdata = NoData /\ udata = NoData /\ iofails = 0
    /\ failtick = 0 /\ born = {} /\ sigAt = Idle

\* The arguments: clock times written HH:MM and H:MM, and other strings
ParseStrings ==
    LET TwoDigit == {HM(h, m) : h \in 0..23, m \in {0, 5, 59}}
        OneDigit == {<<DigitChar(h), ":", DigitChar(m \div 10), DigitChar(m % 10)>> :
                       h \in 0..9, m \in {0, 5, 59}}
        Others ==
            {<<"7", ":", "5">>, <<"0", "0", "7", ":", "0", "0">>,
             <<"0", "7", ":", "0", "0", "5">>,
             <<"1", "2", ":", "7">>, <<" ", "0", "7", ":", "3", "0", " ">>,
             <<"+", "7", ":", "3", "0">>, <<"0", "7", ":", " ", "5">>,
             <<"2", "4", ":", "0", "0">>, <<"1", "2", ":", "6", "0">>,
             <<"9", "9", ":", "9", "9">>,
             <<"-", "1", ":", "3", "0">>, <<"0", "7", ":", "-", "5">>,
             <<"a", "b", ":", "c", "d">>, <<"0", "7", ":", "x", "0">>, <<"8", "h">>,
             <<>>, <<":">>, <<"0", "7", ":">>, <<":", "3", "0">>, <<"1", "2", "0", "0">>,
             <<"0", "7", ":", "3", "0", ":", "0", "0">>, <<"0", "7", ".", "3", "0">>,
             <<"0", "7", ":", ":", "3", "0">>}
    IN  TwoDigit \cup OneDigit \cup Others

InitParse ==
    /\ AtRest
    /\ \E x \in ParseStrings : fn = [op |-> "args", hhmm |-> x]

\* parse_hhmm(hhmm) is called
CallParse ==
    /\ fn.op = "args"
    /\ fn' = [op |-> "parse_hhmm", hhmm |-> fn.hhmm, res |-> parse_hhmm(fn.hhmm)]
    /\ UNCHANGED <<clock, store, shutdown, svars, uvars, hvars, last,
                   lock, sdata, udata, iofails, failtick, born, sigAt>>

NextParse == CallParse

SpecParse == InitParse /\ [][NextParse]_vars

\* A record update_user stored for an id whose load had failed: the patch only
PatchOnlyUser == [enabled |-> FALSE]

\* The users files ensure_user is called on: none, one or two of the users
\* 101 and 102, each with one of four records
EnsureRecords(t0) ==
    {DefaultUser, RunningUser(t0), Merge(DefaultUser, presets.DEVELOPER), PatchOnlyUser}

EnsureStores(t0) ==
    {EmptyStore}
    \cup {StoreOf(<<k>>, <<r>>) : k \in {K101, K102}, r \in EnsureRecords(t0)}
    \cup {StoreOf(<<K101, K102>>, <<r1, r2>>) : r1 \in EnsureRecords(t0), r2 \in EnsureRecords(t0)}

EnsureIds == {101, 102, 103}

InitEnsure ==
    /\ AtRest
    /\ \E d \in EnsureStores(clock), c \in EnsureIds :
          fn = [op |-> "args", chat_id |-> c, calls |-> 0, pre |-> d, data |-> d, res |-> None]

\* ensure_user(chat_id) is called on the users file fn.data
CallEnsure ==
    /\ fn.op \in {"args", "ensure_user"}
    /\ fn.calls < 2
    /\ fn' = [op |-> "ensure_user", chat_id |-> fn.chat_id, calls |-> fn.calls + 1,
              pre |-> fn.data,
              data |-> ensure_user_store(fn.data, fn.chat_id),
              res |-> ensure_user(fn.data, fn.chat_id)]
    /\ UNCHANGED <<clock, store, shutdown, svars, uvars, hvars, last,
                   lock, sdata, udata, iofails, failtick, born, sigAt>>

NextEnsure == CallEnsure

SpecEnsure == InitEnsure /\ [][NextEnsure]_vars

\* ------------------------------------------------------------------------
\* Properties
\* ------------------------------------------------------------------------
\* The snapshot record of the user the latest scheduler step was about
LastUser == users.rec[last.key]

\* The instant lies inside the window of category c of record u, ends included;
\* a window whose end is not after its start runs over midnight
InsideWindow(u, c, t) ==
    LET s == parse_hhmm(GetStrOr(u, WinStartField[c], WinStartDefault[c]))
        e == parse_hhmm(GetStrOr(u, WinEndField[c], WinEndDefault[c]))
        n == SecOfDay(t)
    IN  /\ s # None /\ e # None
        /\ LET a == (s[1] * 60 + s[2]) * 60
               b == (e[1] * 60 + e[2]) * 60
           IN  IF b <= a THEN n >= a \/ n <= b ELSE a <= n /\ n <= b

\* The events the latest scheduler step passed over without acting
PassedOver == IF last.op \in {"rest", "seed", "send"}
              THEN {EventOrder[j] : j \in last.from..last.upto} ELSE {}

\* C1: for every user and point-event key the notifier is invoked at most once
\* per calendar minute, also when several ticks run in the minute and several
\* point events of the user are configured for the same HH:MM.
C1_AtMostOncePerMinute ==
    \A e1, e2 \in log :
        (/\ e1.ev \in PointKeys
         /\ e1.key = e2.key /\ e1.ev = e2.ev
         /\ key_at(e1.now) = key_at(e2.now)) => e1 = e2

\* C2: every dispatch of an interval event happens in a tick in whose snapshot
\* the category is enabled, the tick's time is inside the category's window,
\* the baseline is non-zero and time - baseline >= every_min * 60.
C2_IntervalDispatchGuard ==
    (last.op = "send" /\ last.ev \in IntervalCats) =>
        LET u == LastUser
            c == last.ev
        IN  /\ GetFlag(u, EnabledField[c])
            /\ InsideWindow(u, c, now)
            /\ u[TsField[c]] # 0
            /\ last.t - u[TsField[c]] >= u[EveryField[c]] * 60

\* C2 witness: a water reminder has just been dispatched
C2_Witness ==
    /\ last.op = "send" /\ last.ev = "water"
    /\ LastUser["water_every_min"] = 60
    /\ last.t - LastUser["last_water_ts"] >= 3600

\* C3: an enabled interval category with baseline 0, evaluated inside its
\* window, is not dispatched in that tick and gets the baseline now; while a
\* later tick sees that baseline it does not dispatch the category before
\* every_min * 60 seconds have passed since it; a tick that evaluates the
\* category when enabled, inside its window, with a non-zero baseline and a
\* positive every_min * 60 seconds elapsed does not pass it over, dispatches it
\* once, and the write that follows stores the time of the write as baseline.
C3_BaselineSeeding ==
    /\ (last.op = "seed") =>
          /\ GetFlag(LastUser, EnabledField[last.ev])
          /\ InsideWindow(LastUser, last.ev, now)
          /\ LastUser[TsField[last.ev]] = 0
    /\ \A s \in seeds :
          /\ \A e \in log : ~(e.key = s.key /\ e.ev = s.cat /\ e.tick = s.tick)
          /\ \A e \in log : (e.key = s.key /\ e.ev = s.cat /\ e.base = s.t)
                               => e.t - s.t >= e.every * 60
    /\ (last.op = "write" /\ last.ev \in IntervalCats) =>
          store.rec[last.key][TsField[last.ev]] = last.t
    /\ \A c \in PassedOver \cap IntervalCats :
          ~(/\ GetFlag(LastUser, EnabledField[c])
            /\ InsideWindow(LastUser, c, now)
            /\ LastUser[TsField[c]] # 0
            /\ LastUser[EveryField[c]] > 0
            /\ last.t - LastUser[TsField[c]] >= LastUser[EveryField[c]] * 60)
    /\ \A e1, e2 \in log :
          (e1.ev \in IntervalCats /\ e1.key = e2.key /\ e1.ev = e2.ev /\ e1.tick = e2.tick)
             => e1 = e2

\* C3 witness: a category seeded in one tick has been dispatched in a later
\* tick that saw the seeded baseline
C3_Witness ==
    \E s \in seeds, e \in log :
        /\ e.key = s.key /\ e.ev = s.cat /\ e.base = s.t /\ e.tick > s.tick
        /\ e.every > 0

\* C4: in a tick whose snapshot was loaded while the latest committed value of
\* a user's master switch was off, the scheduler dispatches nothing to that
\* user and writes no firing state for that user.
C4_DisabledUserSuppressed ==
    /\ (last.op \in {"enter", "seed", "send", "write"}) => <<last.key, "enabled">> \notin tickOff
    /\ \A e \in log : e.tick = tick => <<e.key, "enabled">> \notin tickOff

\* C4 witness: the tick has passed a user whose master switch was committed
\* off before the snapshot was loaded, the category switches being on
C4_Witness ==
    /\ last.op = "skipuser"
    /\ <<last.key, "enabled">> \in tickOff
    /\ \A c \in IntervalCats : <<last.key, EnabledField[c]>> \notin tickOff
    /\ GetFlag(LastUser, "water_enabled")

\* C5: when evaluating one user raises, every remaining user of the tick's
\* snapshot is still evaluated in the same tick.
C5_RemainingUsersEvaluated ==
    (spc = "sleep") => \A i \in 1..Len(users.keys) : users.keys[i] \in evald

\* C6: an exception raised while a tick is evaluated does not end the
\* scheduler loop: the loop goes on to its sleep, from which it wakes, and at
\* the top of the loop another tick begins unless shutdown has been signalled;
\* the loop ends only on shutdown.
C6_LoopSurvivesException ==
    /\ spc # "dead"
    /\ (last.op = "raise") => (spc = "sleep" /\ ENABLED Wake)
    /\ (spc = "top" /\ ~shutdown /\ tick < MaxTicks) => ENABLED BeginTick
    /\ (spc = "exit") => shutdown

\* C6 witness: the tick after a tick that raised has begun and has raised too
C6_Witness ==
    /\ tick = 2 /\ last.op = "raise" /\ spc = "sleep"
    /\ ENABLED Wake

\* C7: an interval category whose every_min is not positive or whose window
\* start or end is unparsable is never dispatched.
C7_MalformedNeverDue ==
    (last.op = "send" /\ last.ev \in IntervalCats) =>
        LET u == LastUser
            c == last.ev
        IN  /\ u[EveryField[c]] > 0
            /\ parse_hhmm(GetStrOr(u, WinStartField[c], WinStartDefault[c])) # None
            /\ parse_hhmm(GetStrOr(u, WinEndField[c], WinEndDefault[c])) # None

\* C8: a reminder whose dispatch failed is not sent again in the same tick,
\* the write that follows a dispatch advances the firing state, and no later
\* tick sends the reminder again in the same minute (point event) or before
\* every_min * 60 seconds have passed (interval event).
C8_NoResendAfterFailure ==
    /\ (last.op = "write" /\ last.ev \in PointKeys) =>
          /\ last.ev \in DOMAIN GetLastFire(store.rec[last.key])
          /\ GetLastFire(store.rec[last.key])[last.ev] = key_at(now)
    /\ (last.op = "write" /\ last.ev \in IntervalCats) =>
          store.rec[last.key][TsField[last.ev]] = last.t
    /\ \A e1, e2 \in log :
          (~e1.ok /\ e1.key = e2.key /\ e1.ev = e2.ev /\ e1 # e2 /\ e2.tick >= e1.tick) =>
             /\ e2.tick # e1.tick
             /\ e1.ev \in PointKeys => key_at(e2.now) # key_at(e1.now)
             /\ (e1.ev \in IntervalCats /\ e2.every > 0) => e2.t - e1.t >= e2.every * 60

\* The baseline a committed re-enable or preset stored is in the store
BaselineStored ==
    (last.op = "commit") =>
        \A c \in last.cats :
            \E r \in resets :
                /\ r.key = last.key /\ r.cat = c
                /\ store.rec[last.key][TsField[c]] = r.t

\* The dispatch of the latest step is not earlier than every_min * 60 seconds
\* after the baseline of the resets rs of the kind given
NotBeforeCadence(rs, kind) ==
    (last.op = "send" /\ last.ev \in IntervalCats) =>
        \A r \in rs :
            (r.kind = kind /\ r.key = last.key /\ r.cat = last.ev)
                => last.t >= r.t + r.every * 60

\* C9 as stated: after an interval category is re-enabled through its toggle
\* at time T its stored baseline is T, and no reminder of the category is
\* dispatched before T + every_min * 60 seconds, whenever the dispatching tick
\* loaded its snapshot.
C9_ReenableResetsCadence_AnyTick ==
    /\ (last.op = "commit" /\ last.act \in DOMAIN ToggleCat) =>
          (BaselineStored /\ \A r \in resets :
               (r.key = last.key /\ r.cat \in last.cats) => r.t = last.t)
    /\ NotBeforeCadence(resets, "toggle")

\* The latest resets that the snapshot of the tick reflects: those committed
\* before the snapshot was loaded, and those of a category whose switch was
\* committed off when the snapshot was loaded
SeenByTick ==
    {r \in resets : r \in tickResets \/ <<r.key, EnabledField[r.cat]>> \in tickOff}

\* C9: after an interval category is re-enabled through its toggle at time T
\* its stored baseline is T, and no tick that loaded its snapshot after the
\* category was switched off dispatches a reminder of the category before
\* T + every_min * 60 seconds.
C9_ReenableResetsCadence ==
    /\ (last.op = "commit" /\ last.act \in DOMAIN ToggleCat) =>
          (BaselineStored /\ \A r \in resets :
               (r.key = last.key /\ r.cat \in last.cats) => r.t = last.t)
    /\ NotBeforeCadence(SeenByTick, "toggle")

\* C9 witness: a tick that loaded its snapshot after water was re-enabled has
\* evaluated water, switched on and inside its window, and passed it over
C9_Witness ==
    /\ "water" \in PassedOver
    /\ \E r \in resets \cap tickResets :
          /\ r.kind = "toggle" /\ r.key = last.key /\ r.cat = "water"
          /\ GetFlag(LastUser, "water_enabled") /\ InsideWindow(LastUser, "water", now)
          /\ LastUser["last_water_ts"] = r.t
          /\ last.t < r.t + r.every * 60

\* C10 as stated: when apply_preset with a known preset has completed, all
\* four interval baselines of the user equal one time T, and no interval
\* reminder is dispatched to the user before T + every_min * 60 seconds,
\* whenever the dispatching tick loaded its snapshot.
C10_PresetNoImmediateFire_AnyTick ==
    /\ (last.op = "commit" /\ IsPresetAction(last.act)) =>
          (BaselineStored /\ \A r \in resets :
               (r.key = last.key /\ r.cat \in last.cats) => r.t = last.t)
    /\ NotBeforeCadence(resets, "preset")

\* C10: when apply_preset with a known preset, begun at time T, has completed,
\* each of the four interval baselines of the user is the time sampled for it,
\* between T and the completion, and no tick that loaded its snapshot after
\* the completion dispatches an interval reminder before the baseline of its
\* category + every_min * 60 seconds.
C10_PresetNoImmediateFire ==
    /\ (last.op = "commit" /\ IsPresetAction(last.act)) =>
          /\ last.cats = IntervalCats
          /\ BaselineStored
          /\ \A r \in resets :
               (r.key = last.key /\ r.cat \in last.cats) => (last.t <= r.t /\ r.t <= clock)
    /\ NotBeforeCadence(SeenByTick, "preset")

\* C10 witness: a tick that loaded its snapshot after the preset completed has
\* dispatched the eye reminder, one interval of the preset after its baseline
C10_Witness ==
    /\ last.op = "send" /\ last.ev = "eye"
    /\ \E r \in resets \cap tickResets :
          /\ r.kind = "preset" /\ r.key = last.key /\ r.cat = "eye"
          /\ r.every = 20
          /\ last.t >= r.t + r.every * 60

\* C13: at the end of a tick the stored last_fire of a user maps every point
\* event dispatched to the user in that tick to the tick's minute key, and
\* every mark the user had when the tick began is still present.
C13_FiringMarksPersist ==
    (spc = "sleep") =>
        \A e \in log :
            (e.tick = tick /\ e.ev \in PointKeys) =>
                LET lf == GetLastFire(store.rec[e.key])
                IN  /\ e.ev \in DOMAIN lf
                    /\ lf[e.ev] = key_at(now)
                    /\ \A k \in DOMAIN GetLastFire(users.rec[e.key]) : k \in DOMAIN lf

\* The point events of record u configured for the HH:MM of instant t whose
\* conditions (work switch and work day, exercise switch, meal switch) hold
ConfiguredFor(u, t) ==
    {ev \in PointKeys :
        /\ u[TimeField[ev]] = HM(HourOf(t), MinuteOf(t))
        /\ (ev \in {"work_start", "work_end"}) => (u["work_enabled"] /\ WeekdayOf(t) \in u["work_days"])
        /\ (ev = "exercise") => u["exercise_enabled"]
        /\ (ev \in {"breakfast", "lunch", "dinner"}) => u["meal_enabled"]}

\* The reminders of event ev dispatched to the user of the latest step in the
\* current tick
SentThisTick(ev) == {e \in log : e.key = last.key /\ e.ev = ev /\ e.tick = tick}

\* C14: when the evaluation of an enabled user is complete in the first tick
\* of a minute (the snapshot holds no mark of that minute), every point event
\* of the user configured for that HH:MM has been dispatched in the tick,
\* however many of them there are.
C14_CoincidingFireIndependently ==
    (/\ last.op = "rest"
     /\ \A k \in DOMAIN GetLastFire(LastUser) : GetLastFire(LastUser)[k] # key_at(now))
        => \A ev \in ConfiguredFor(LastUser, now) : SentThisTick(ev) # {}

\* C14 witness: two point events configured for the same HH:MM have both been
\* dispatched to the user in the first tick of the minute
C14_Witness ==
    /\ last.op = "rest"
    /\ \A k \in DOMAIN GetLastFire(LastUser) : GetLastFire(LastUser)[k] # key_at(now)
    /\ {"exercise", "dinner"} \subseteq ConfiguredFor(LastUser, now)
    /\ SentThisTick("exercise") # {} /\ SentThisTick("dinner") # {}

\* The interval categories of record u that are switched off, or switched on
\* with instant t outside their window
NotApplicable(u, t) ==
    {c \in IntervalCats : ~GetFlag(u, EnabledField[c]) \/ ~InsideWindow(u, c, t)}

WindowHolds(a, b, t) ==
    /\ a # None /\ b # None
    /\ LET start == (a[1] * 60 + a[2]) * 60
           end == (b[1] * 60 + b[2]) * 60
           n == SecOfDay(t)
       IN  IF end <= start THEN n >= start \/ n <= end ELSE start <= n /\ n <= end

\* C17: in_window is the specified membership: for an end not after the start
\* (equal included) now >= start or now <= end, otherwise start <= now <= end,
\* and false when start or end is no valid clock time; for 22:00-06:00 the
\* times 23:30 and 02:00 are inside and 12:00 is outside.
C17_InWindowMembership ==
    (fn.op = "in_window") =>
        /\ fn.res = WindowHolds(fn.start.hm, fn.end.hm, fn.now)
        /\ (fn.start.hm = fn.end.hm /\ fn.start.hm # None) => fn.res
        /\ (fn.start.hm = None \/ fn.end.hm = None) => ~fn.res
        /\ (fn.start.hm = <<22, 0>> /\ fn.end.hm = <<6, 0>>) =>
              /\ (HHMM(fn.now) \in {HM(23, 30), HM(2, 0)}) => fn.res
              /\ (HHMM(fn.now) = HM(12, 0)) => ~fn.res

\* C17 witness: in_window has answered for 02:00 in the window 22:00-06:00
C17_Witness ==
    /\ fn.op = "in_window"
    /\ fn.start.hm = <<22, 0>> /\ fn.end.hm = <<6, 0>>
    /\ HHMM(fn.now) = HM(2, 0)
    /\ fn.res

\* The reminders of event ev dispatched to the user of the latest step by an
\* earlier tick in the minute of the current tick
SentEarlierThisMinute(ev) ==
    {e \in log : /\ e.key = last.key /\ e.ev = ev /\ e.tick < tick
                 /\ DayOf(e.now) = DayOf(now) /\ HHMM(e.now) = HHMM(now)}

\* C15: a point event dispatched at HH:MM on day D is dispatched again by the
\* first tick evaluated at the same HH:MM on day D+1, when the user is enabled
\* and the event is still configured for that HH:MM.
C15_DailyRecurrence ==
    (last.op = "rest") =>
        \A e \in log :
            (/\ e.key = last.key /\ e.ev \in PointKeys
             /\ DayOf(e.now) = DayOf(now) - 1 /\ HHMM(e.now) = HHMM(now)
             /\ e.ev \in ConfiguredFor(LastUser, now)
             /\ SentEarlierThisMinute(e.ev) = {})
                => SentThisTick(e.ev) # {}

\* C15 witness: dinner, dispatched on Friday at 18:00 and still marked with
\* Friday's minute in the snapshot, has been dispatched on Saturday at 18:00
C15_Witness ==
    /\ last.op = "rest"
    /\ "dinner" \in DOMAIN GetLastFire(LastUser)
    /\ GetLastFire(LastUser)["dinner"] = <<DayOf(now) - 1, HM(18, 0)>>
    /\ \E e \in log : e.key = last.key /\ e.ev = "dinner" /\ DayOf(e.now) = DayOf(now) - 1
    /\ SentThisTick("dinner") # {}

\* C16: work_start and work_end are dispatched only in ticks whose weekday is
\* one of the user's work_days and whose snapshot has work_enabled true; with
\* work_days Monday to Friday they are never dispatched on a Saturday or a
\* Sunday.
C16_WeekdayGating ==
    /\ (last.op = "send" /\ last.ev \in {"work_start", "work_end"}) =>
          /\ LastUser["work_enabled"]
          /\ WeekdayOf(now) \in LastUser["work_days"]
    /\ \A e \in log :
          (/\ e.ev \in {"work_start", "work_end"}
           /\ GetDays(store.rec[e.key]) = {0, 1, 2, 3, 4})
              => (DayOf(e.now) + 3) % 7 \notin {5, 6}

\* C16 witness: the tick of Saturday 18:00 has evaluated a user whose work_end
\* is 18:00 and who got the reminder on Friday, and has not dispatched it
C16_Witness ==
    /\ last.op = "rest"
    /\ WeekdayOf(now) = 5
    /\ LastUser["work_enabled"] /\ LastUser["work_end"] = HHMM(now)
    /\ \E e \in log : e.key = last.key /\ e.ev = "work_end" /\ WeekdayOf(e.now) = 4
    /\ SentThisTick("work_end") = {}

\* The settings a preset replaces and no single button changes
SettingFields == DOMAIN presets.DEVELOPER \ FlagFields

\* The sources a record's settings can come from as a whole
SettingSources == {DefaultUser} \cup {presets[n] : n \in DOMAIN presets}

\* The settings of record u come from one source, none mixed in from another
Whole(u) ==
    \/ DOMAIN u \cap SettingFields = {}
    \/ \E b \in SettingSources :
          \A f \in SettingFields : f \in DOMAIN u /\ u[f] = b[f]

\* What the scheduler and ensure_user have read of the users file
Observed == {store, users, sdata.data, udata.data}

\* C11: a preset reaches the store in one update: every record in the file,
\* in a snapshot of the scheduler or in what ensure_user or update_user has
\* loaded has its settings from one source, never some of a preset and some
\* of what was there before; and the save of a preset stores every field of
\* the preset and the four baselines at once.
C11_PresetIsOneUpdate ==
    /\ \A d \in Observed : \A k \in DOMAIN d.rec : Whole(d.rec[k])
    /\ (last.op = "commit" /\ IsPresetAction(last.act) /\ last.saved)
          => /\ DOMAIN last.patch
                  = DOMAIN presets[PresetOf[last.act]]
                    \cup {PresetTsOrder[i] : i \in 1..Len(PresetTsOrder)}
             /\ \A f \in DOMAIN last.patch : store.rec[last.key][f] = last.patch[f]

\* C11 witness: a preset was saved while the scheduler works on a snapshot
\* it took before, which shows the user's previous settings
C11_Witness ==
    /\ last.op = "commit" /\ IsPresetAction(last.act) /\ last.saved
    /\ spc \in {"user", "eval", "write", "save"}
    /\ HasUser(users, last.key)
    /\ users.rec[last.key].eye_every_min # store.rec[last.key].eye_every_min
    /\ users.rec[last.key].eye_every_min = last.pre.rec[last.key].eye_every_min

\* A thread is between its load and its save
SchedInUpdate == spc = "save"
LoopInUpdate == upc \in {"ensure", "save"}

\* The store after a save is the store before it with the patch merged into
\* the record of key k
MergedInto(after, before, k, p) ==
    /\ DOMAIN before.rec \subseteq DOMAIN after.rec
    /\ \A k2 \in DOMAIN before.rec \ {k} : after.rec[k2] = before.rec[k2]
    /\ k \in DOMAIN after.rec
    /\ \A f \in DOMAIN p : f \in DOMAIN after.rec[k] /\ after.rec[k][f] = p[f]
    /\ k \in DOMAIN before.rec
          => \A f \in DOMAIN before.rec[k] \ DOMAIN p :
                 f \in DOMAIN after.rec[k] /\ after.rec[k][f] = before.rec[k][f]

\* C12: the load, merge and save of one update_user or ensure_user is never
\* interleaved with that of the other thread: the two threads are never both
\* between load and save, what a thread has loaded is still what the file
\* holds when it saves, and a save leaves the file as it was with the patch
\* merged in, so the fields another patch wrote before are kept.
C12_NoLostUpdate ==
    /\ ~(SchedInUpdate /\ LoopInUpdate)
    /\ (SchedInUpdate /\ sdata.ok) => sdata.data = store
    /\ (LoopInUpdate /\ udata.ok) => udata.data = store
    /\ (last.op \in {"write", "commit"} /\ last.saved /\ last.loaded)
          => MergedInto(store, last.pre, last.key, last.patch)

\* C12 witness: the handler saved a patch for the user the scheduler is
\* about to write a mark or baseline for, the scheduler having written one
\* for that user earlier in the tick; the record holds both
C12_Witness ==
    /\ last.op = "commit" /\ last.saved /\ last.loaded
    /\ spc = "write" /\ CurKey = last.key
    /\ \E e \in log : e.tick = tick /\ e.key = last.key /\ e.ev \in PointKeys /\ e.ok
          /\ e.ev \in DOMAIN store.rec[last.key].last_fire
    /\ \A f \in DOMAIN last.patch : store.rec[last.key][f] = last.patch[f]

\* The tick in progress is one whose load failed
InFailedTick == failtick = tick /\ tick > 0 /\ spc \notin {"top", "exit"}

\* C19: a tick whose load fails works on an empty set of users, sends
\* nothing, writes nothing, does not end the thread, and the following tick
\* can begin and reads the file as it is.
C19_LoadFailureSkipsCycle ==
    /\ InFailedTick
          => /\ users.keys = <<>>
             /\ spc \in {"user", "sleep"}
             /\ \A e \in log : e.tick # tick
             /\ \A sd \in seeds : sd.tick # tick
    /\ (failtick = tick /\ tick > 0 /\ spc = "top" /\ ~shutdown /\ tick < MaxTicks)
          => ENABLED IOBeginTick
    /\ last.op = "load" => users = store

\* C19 witness: the load of the first tick failed, though there were users
\* with reminders due, and the second tick has sent a reminder
C19_Witness ==
    /\ failtick = 1 /\ tick = 2
    /\ \A e \in log : e.tick = 2
    /\ \E e \in log : e.ok
    /\ users.keys # <<>>

\* C20: every record that was ever stored is still in the file with every
\* field it was ever stored with.
C20_RecordsNeverDeleted ==
    \A x \in born : x[1] \in DOMAIN store.rec /\ x[2] \in DOMAIN store.rec[x[1]]

\* C21: once shutdown_event is set the scheduler begins no tick (the number
\* of ticks begun stays what it was when the signal arrived; the tick in
\* progress goes on), and the loop eventually exits.
C21_ShutdownStopsScheduler ==
    /\ [](shutdown => tick = sigAt.tick)
    /\ (shutdown ~> spc = "exit")

\* C21 witness: the signal arrived in the middle of a tick, the tick sent a
\* reminder after that, and the loop has ended
C21_Witness ==
    /\ shutdown /\ spc = "exit"
    /\ sigAt.spc \in {"user", "eval", "write"}
    /\ Cardinality(log) > sigAt.sent

\* C22: the elapsed-time test of an interval reminder is made against the
\* instant of the tick, and the baseline the scheduler stores for an interval
\* category is the instant of the tick.
C22_OneInstantPerTick ==
    /\ (last.op = "send" /\ spc = "write" /\ CurEvent \in IntervalCats)
          => IntervalDecision(CurUser, CurEvent, now, now) = "send"
    /\ (last.op = "write" /\ last.ev \in IntervalCats)
          => store.rec[last.key][TsField[last.ev]] = now

\* The string is D:DD or DD:DD, D a digit
ClockShape(x) ==
    /\ Len(x) \in {4, 5}
    /\ x[Len(x) - 2] = ":"
    /\ \A i \in (1..Len(x)) \ {Len(x) - 2} : IsDigit(x[i])

\* The hour and minute such a string denotes
ClockHour(x) == IF Len(x) = 4 THEN DigitVal(x[1]) ELSE DigitVal(x[1]) * 10 + DigitVal(x[2])

ClockMinute(x) == DigitVal(x[Len(x) - 1]) * 10 + DigitVal(x[Len(x)])

\* C25: parse_hhmm returns (hour, minute) for the strings of the shape H:MM
\* or HH:MM with hour 0..23 and minute 0..59, and None for every other string.
C25_ParseClockTime ==
    (fn.op = "parse_hhmm") =>
        fn.res = IF /\ ClockShape(fn.hhmm)
                    /\ ClockHour(fn.hhmm) <= 23
                    /\ ClockMinute(fn.hhmm) <= 59
                 THEN <<ClockHour(fn.hhmm), ClockMinute(fn.hhmm)>>
                 ELSE None

\* The record has the fixed defaults: the master switch on, the default time,
\* interval and window of every category, no mark, the four baselines 0
FixedDefaults(u) ==
    /\ u.enabled = TRUE
    /\ u.wake_time = HM(7, 0) /\ u.sleep_time = HM(23, 0)
    /\ u.work_enabled = TRUE /\ u.work_start = HM(9, 0) /\ u.work_end = HM(18, 0)
    /\ u.work_days = {0, 1, 2, 3, 4}
    /\ u.exercise_enabled = TRUE /\ u.exercise_time = HM(18, 30)
    /\ u.meal_enabled = TRUE /\ u.breakfast_time = HM(7, 30)
    /\ u.lunch_time = HM(12, 0) /\ u.dinner_time = HM(18, 30)
    /\ \A c \in IntervalCats :
          /\ u[EnabledField[c]] = TRUE
          /\ u[EveryField[c]] = EveryDefault[c]
          /\ u[WinStartField[c]] = WinStartDefault[c]
          /\ u[WinEndField[c]] = WinEndDefault[c]
          /\ u[TsField[c]] = 0
    /\ u.last_fire = <<>>

C28_HalfOpenWindowEnd ==
    (last.op = "send" /\ spc = "write" /\ CurEvent \in IntervalCats) =>
        LET ws == GetStrOr(CurUser, WinStartField[CurEvent], WinStartDefault[CurEvent])
            we == GetStrOr(CurUser, WinEndField[CurEvent], WinEndDefault[CurEvent])
            from == (ClockHour(ws) * 60 + ClockMinute(ws)) * SecPerMin
            upto == (ClockHour(we) * 60 + ClockMinute(we)) * SecPerMin
        IN  (ClockShape(ws) /\ ClockShape(we) /\ from < upto)
                => (from <= SecOfDay(now) /\ SecOfDay(now) < upto)

\* Two reminders of one interval category to one user, the second from a
\* later tick, the category's every_min the same positive value at both
SameCadence(e1, e2) ==
    /\ e1.key = e2.key /\ e1.ev = e2.ev /\ e1.ev \in IntervalCats
    /\ e1.tick < e2.tick
    /\ e1.every = e2.every /\ e1.every > 0

\* C26 as stated: any two dispatches of an interval category to a user whose
\* every_min stays a fixed positive value are at least every_min*60 seconds
\* apart, over any sequence of ticks, toggles and presets.
C26_MinimumSpacing_AnySequence ==
    \A e1 \in log, e2 \in log :
        SameCadence(e1, e2) => e2.t - e1.t >= e1.every * SecPerMin

\* The reminder the latest step handed to tg_send
JustSent == {e \in log : e.key = CurKey /\ e.ev = CurEvent /\ e.tick = tick}

\* C26, amended: two dispatches of an interval category to a user whose
\* every_min stays a fixed positive value are at least every_min*60 seconds
\* apart, unless the baseline the second tick loaded is one that a re-enable
\* or preset sampled before the first dispatch and committed after it; then
\* the second dispatch is at least every_min*60 seconds after that baseline.
C26_MinimumSpacing ==
    (last.op = "send" /\ spc = "write" /\ CurEvent \in IntervalCats) =>
        \A e2 \in JustSent : \A e1 \in log :
            SameCadence(e1, e2) =>
                \/ e2.t - e1.t >= e1.every * SecPerMin
                \/ /\ \E r \in tickResets :
                          r.key = e2.key /\ r.cat = e2.ev /\ r.t = e2.base /\ r.t < e1.t
                   /\ e2.t - e2.base >= e2.every * SecPerMin

\* C26 witness: a second water reminder goes out a full interval after the
\* first, the tick having loaded the baseline the scheduler stored for the first
C26_Witness ==
    /\ last.op = "send" /\ spc = "write" /\ CurEvent = "water"
    /\ \E e2 \in JustSent : \E e1 \in log :
          /\ SameCadence(e1, e2)
          /\ e2.base >= e1.t
          /\ e2.t - e1.t >= e1.every * SecPerMin

FiringFields == {"last_fire"} \cup {TsField[c] : c \in IntervalCats}

\* The updates of (key, category) committed since the tick loaded its snapshot
CommittedInTick(k, c) == {r \in resets \ tickResets : r.key = k /\ r.cat = c}

C27_NoStarvationByBadRecord ==
    (spc = "sleep") =>
        \A k \in DOMAIN users.rec :
            (IntOk(k) /\ UserEnabled(users.rec[k])) =>
                \A ev \in PointKeys :
                    PointDue(users.rec[k], ev, now) =>
                        \E e \in log : e.key = k /\ e.ev = ev /\ e.tick = tick

\* The reminders of event ev handed to tg_send for user k in the current tick
\* no later than instant t
SentInTick(k, ev, t) == {e \in log : e.key = k /\ e.ev = ev /\ e.tick = tick /\ e.t <= t}

\* C30: the scheduler writes firing state for an event only after it has
\* called the notifier for that event in the same tick, the seeding of a
\* zero baseline excepted: when a write is about to be made and when it has
\* been made, the reminder is in the log of the tick, or the event is an
\* interval category whose baseline in the snapshot is zero; and while the
\* notifier is being called for a point event its mark is not yet stored.
C30_DispatchPrecedesWrite ==
    /\ (spc = "write") =>
          /\ \/ SentInTick(CurKey, CurEvent, clock) # {}
             \/ CurEvent \in IntervalCats /\ GetIntOr(CurUser, TsField[CurEvent], 0) = 0
          /\ (CurEvent \in PointKeys /\ HasUser(store, CurKey)) =>
                LET lf == GetLastFire(store.rec[CurKey])
                IN  ~(CurEvent \in DOMAIN lf /\ lf[CurEvent] = key_at(now))
    /\ (last.op = "write") =>
          \/ SentInTick(last.key, last.ev, last.t) # {}
          \/ last.ev \in IntervalCats /\ GetIntOr(users.rec[last.key], TsField[last.ev], 0) = 0

\* C30 witness: in one tick a zero baseline has been seeded without a
\* reminder, and a point event has been sent and its mark then stored
C30_Witness ==
    /\ last.op = "write" /\ last.ev \in PointKeys
    /\ SentInTick(last.key, last.ev, last.t) # {}
    /\ GetLastFire(store.rec[last.key])[last.ev] = key_at(now)
    /\ \E sd \in seeds : sd.tick = tick /\ sd.key = last.key
                          /\ SentInTick(sd.key, sd.cat, last.t) = {}

\* C31: _io_lock is held only inside ensure_user and update_user, by the one
\* thread that is inside them (the scheduler between the load and the save of
\* its update_user, the update loop between the load and the return of
\* ensure_user or of update_user), and never by both; it is not held where a
\* thread calls the notifier, sleeps or polls; the thread that holds it is at
\* the step that releases it, which waits for nothing; so a slow or failed
\* send of the scheduler leaves the lock free for the update loop, and a
\* thread that wants the lock finds it free unless the other thread is inside
\* its store operation.
C31_LockNeverHeldAcrossSend ==
    /\ lock \in {"none", "S", "U"}
    /\ (lock = "S") <=> (spc = "save")
    /\ (lock = "U") <=> (upc \in {"ensure", "save"})
    /\ ~(spc = "save" /\ upc \in {"ensure", "save"})
    /\ (spc = "save") => (sdata # NoData /\ SaveOutcomes # {})
    /\ (upc \in {"ensure", "save"}) => (udata # NoData /\ SaveOutcomes # {})
    /\ (spc = "write" /\ ~CanAcquire(lock)) => upc \in {"ensure", "save"}
    /\ (upc \in {"poll", "commit"} /\ ~CanAcquire(lock)) => spc = "save"

\* C31 witness: a send of the scheduler has failed after SendDelay seconds,
\* and the update loop is inside a store operation with the lock, for which
\* the scheduler's next write waits
C31_Witness ==
    /\ spc = "write" /\ lock = "U" /\ upc = "save"
    /\ \E e \in log : /\ ~e.ok /\ e.tick = tick /\ e.key = CurKey /\ e.ev = CurEvent
                       /\ clock = e.t + SendDelay

\* C32: in every store state the last_fire of each user has keys among the
\* eight point events only, and the value under a key is the minute key
\* (date, "HH:MM") of the instant of a tick in which that event was sent to
\* that user; and, as seen while the tick is in progress, every point event
\* sent in it was configured, in the snapshot of the tick, for the HH:MM of
\* the tick's instant.
C32_LastFireWellFormed ==
    /\ \A k \in DOMAIN store.rec :
          LET lf == GetLastFire(store.rec[k])
          IN  \A ev \in DOMAIN lf :
                  /\ ev \in PointKeys
                  /\ \E e \in log :
                        /\ e.key = k /\ e.ev = ev
                        /\ lf[ev] = <<DayOf(e.now), HM(HourOf(e.now), MinuteOf(e.now))>>
    /\ \A e \in log :
          (e.tick = tick /\ e.ev \in PointKeys /\ spc \notin {"top", "exit"}) =>
              /\ e.now = now
              /\ GetStr(users.rec[e.key], TimeField[e.ev]) = HM(HourOf(now), MinuteOf(now))

\* C32 witness: dinner has been sent and marked with the minute key of the
\* tick, for whose HH:MM the snapshot had it configured, and a preset
\* committed during the tick has moved dinner_time in the store
C32_Witness ==
    /\ last.op = "write" /\ last.ev = "dinner"
    /\ GetLastFire(store.rec[last.key])["dinner"] = key_at(now)
    /\ GetStr(users.rec[last.key], "dinner_time") = HHMM(now)
    /\ GetStr(store.rec[last.key], "dinner_time") # HHMM(now)

====
